---- MODULE Spec2Model ----
(***************************************************************************)
(* Fantasy Zoo: the tick-driven simulation engine (js/main.js gameTick and *)
(* the systems it calls) and the player operations wired in js/ui.js.      *)
(*                                                                         *)
(* window.GameState is the single record GS.  Every system function is an  *)
(* operator from a GameState value to the GameState value it leaves        *)
(* behind.  Math.random() and Date.now() are inputs of the actions.        *)
(*                                                                         *)
(* Numbers: hunger, cleanliness and happiness are kept in hundredths of a  *)
(* point (70 is 7000), the two income multipliers in hundredths (1.1 is    *)
(* 110), so that the source's 0.05, 0.5 and 0.7 steps are integers.  Time  *)
(* is in milliseconds.  Coins and base income are the source's integers.   *)
(***************************************************************************)
EXTENDS Integers, Sequences, FiniteSets, TLC

VARIABLES
    GS,        \* window.GameState
    now,       \* the clock source, Date.now()
    idSeq,     \* Utils.id(): how many egg ids have been issued
    ticks,     \* game ticks counted against MaxTicks
    ops,       \* effective player operations counted against MaxOps
    bathLog,   \* history: the baths CleaningSystem.tick has finished, in order
    arrivals,  \* history: the ids sendToBathById has queued, in order
    loop       \* js/main.js: gameLoopHandle, and the browser's interval timers

vars == <<GS, now, idSeq, ticks, ops, bathLog, arrivals, loop>>

(***************************************************************************)
(* Bounds of the exploration                                               *)
(***************************************************************************)
MaxTicks == 3
MaxEggs == 2
MaxOps == 2

(***************************************************************************)
(* Program constants                                                       *)
(***************************************************************************)
Pt == 100                                 \* one stat point, in hundredths
TICK_MS == 1000
STARTING_COINS == 100
SELL_MULTIPLIER == 15
FEED_COST_MULTIPLIER == 5
CLEAN_COST_MULTIPLIER == 6
CLINIC_COST_MULTIPLIER == 25
BATH_DURATION_MS == 7000
CLINIC_DURATION_MS == 10000
MAX_CLEANLINESS == 100
MAX_HUNGER == 100
BASE_HAPPINESS == 70
NEGLECT_THRESHOLD_HUNGER == 30
NEGLECT_THRESHOLD_CLEANLINESS == 30
NEGLECT_TICKS_BEFORE_SICK == 20
HUNGER_OK_THRESHOLD == 70
CLEANLINESS_OK_THRESHOLD == 70
HAPPINESS_MIN == 0
HAPPINESS_MAX == 100
HUNGER_DECAY_PER_TICK == 50               \* 0.5
PENALTY_PER_TICK_HUNGRY == -70            \* -0.7
PENALTY_PER_TICK_DIRTY == -70             \* -0.7
PENALTY_PER_TICK_SICK == -100             \* -1.0
BONUS_PER_TICK_WELL_CARED == 50           \* +0.5
NATURAL_DRIFT_PER_TICK == -5              \* -0.05
MIN_TIME_BETWEEN_EVENTS_MS == 15000
DOUBLE_TIPS_DURATION_MS == 20000
STARTING_COINS_AFTER_PRESTIGE == 100
MIN_COINS_FOR_PRESTIGE == 200
MIN_ANIMALS_FOR_PRESTIGE == 3
PRESTIGE_REWARD_INCOME_BOOST_PER_PRESTIGE == 10   \* 0.10

(***************************************************************************)
(* Static configuration                                                    *)
(***************************************************************************)
EggData ==
    [ common |-> [price |-> 20, hatchTime |-> 7000],
      rare   |-> [price |-> 45, hatchTime |-> 11000],
      mystic |-> [price |-> 90, hatchTime |-> 15000] ]

EggTypeKeys == DOMAIN EggData

\* One template per distinct (rarity, income) of each pool of animals.js.
AnimalPools ==
    [ common |-> << [rarity |-> "Common",   income |-> 1],
                    [rarity |-> "Uncommon", income |-> 2] >>,
      rare   |-> << [rarity |-> "Rare",     income |-> 3],
                    [rarity |-> "Epic",     income |-> 4] >>,
      mystic |-> << [rarity |-> "Epic",      income |-> 5],
                    [rarity |-> "Legendary", income |-> 6] >> ]

HabitatConfig ==
    [ forest |-> [baseCapacity |-> 6, capacityPerLevel |-> 2,
                  supportedEggTypes |-> {"common", "rare"},
                  bonusMultiplier |-> 120, penaltyMultiplier |-> 90],
      desert |-> [baseCapacity |-> 4, capacityPerLevel |-> 1,
                  supportedEggTypes |-> {"rare"},
                  bonusMultiplier |-> 120, penaltyMultiplier |-> 90],
      ocean  |-> [baseCapacity |-> 5, capacityPerLevel |-> 2,
                  supportedEggTypes |-> {"common", "rare"},
                  bonusMultiplier |-> 120, penaltyMultiplier |-> 90],
      arctic |-> [baseCapacity |-> 4, capacityPerLevel |-> 1,
                  supportedEggTypes |-> {"rare"},
                  bonusMultiplier |-> 120, penaltyMultiplier |-> 90],
      mystic |-> [baseCapacity |-> 3, capacityPerLevel |-> 1,
                  supportedEggTypes |-> {"mystic"},
                  bonusMultiplier |-> 130, penaltyMultiplier |-> 85] ]

HabitatKeys == DOMAIN HabitatConfig

(***************************************************************************)
(* Helpers                                                                 *)
(***************************************************************************)
Max(a, b) == IF a >= b THEN a ELSE b
Min(a, b) == IF a <= b THEN a ELSE b

\* A clamp that would let every value through (not the source's behaviour:
\* the variant C4 is tested against)
clampNothing(value, lo, hi) == value

\* Utils.clamp(value, min, max)
clamp(value, lo, hi) == Max(lo, Min(hi, value))

\* A null currentBath / currentPatient
NoSlot == [id |-> 0, start |-> 0, durationMs |-> 0]

SeqToSet(s) == {s[i] : i \in DOMAIN s}

AnimalIds(gs) == {gs.animals[i].id : i \in DOMAIN gs.animals}

\* GS.animals.find(a => String(a.id) === idStr): its index, 0 when absent
AnimalIndex(gs, id) ==
    IF \E i \in DOMAIN gs.animals : gs.animals[i].id = id
    THEN CHOOSE i \in DOMAIN gs.animals :
            /\ gs.animals[i].id = id
            /\ \A j \in DOMAIN gs.animals : gs.animals[j].id = id => i <= j
    ELSE 0

(***************************************************************************)
(* js/state.js: window.GameState as the scripts leave it at load time      *)
(***************************************************************************)
FreshHabitats == [k \in HabitatKeys |-> [level |-> 1, animalIds |-> <<>>]]

InitialGameState ==
    [ coins |-> STARTING_COINS,
      incomePerSecond |-> 0,
      animals |-> <<>>,
      eggs |-> <<>>,
      bathQueue |-> <<>>,
      currentBath |-> NoSlot,
      clinicQueue |-> <<>>,
      currentPatient |-> NoSlot,
      habitats |-> FreshHabitats,
      events |-> [activeEvents |-> <<>>, history |-> <<>>, lastEventTime |-> 0],
      leaderboard |-> <<>>,
      prestige |-> [count |-> 0, totalPrestigePoints |-> 0],
      modifiers |-> [globalPrestigeMultiplier |-> 100, incomeBoostMultiplier |-> 1],
      isGameOver |-> FALSE,
      gameOverReason |-> "none" ]

(***************************************************************************)
(* js/systems/hatching.js                                                  *)
(***************************************************************************)
\* getAnimalPoolForEggType(typeKey): the pool, [] when missing or empty
getAnimalPoolForEggType(typeKey) ==
    IF typeKey \in DOMAIN AnimalPools /\ Len(AnimalPools[typeKey]) > 0
    THEN AnimalPools[typeKey]
    ELSE <<>>

\* The animal instance createAnimalFromEgg builds from a template
NewAnimal(id, template, typeKey) ==
    [ id |-> id,
      rarity |-> template.rarity,
      income |-> template.income,
      hunger |-> 100 * Pt,
      cleanliness |-> 100 * Pt,
      happiness |-> 70 * Pt,
      healthStatus |-> "healthy",
      neglectTicks |-> 0,
      habitat |-> "none",
      habitatBonusMultiplier |-> 100,
      happinessIncomeMultiplier |-> 100,
      effectiveIncome |-> template.income * 100,
      fromEggType |-> typeKey ]

\* createAnimalFromEgg(egg); choice is the index Utils.randomChoice draws.
\* The animal's id is the egg's number: Utils.id("animal") is taken fresh.
createAnimalFromEgg(gs, egg, choice) ==
    LET pool == getAnimalPoolForEggType(egg.type) IN
    IF Len(pool) = 0 THEN gs
    ELSE [gs EXCEPT !.animals =
              Append(@, NewAnimal(egg.id, pool[((choice - 1) % Len(pool)) + 1], egg.type))]

\* A test that would let an egg wait one instant longer (not the source's
\* behaviour: the variant C5 is tested against)
EggIsOverdue(egg, t) == (t - egg.start > egg.hatchTime) /\ egg.hatchTime > 0

\* The test of HatchingSystem.tick's loop
EggIsDue(egg, t) == (t - egg.start >= egg.hatchTime) /\ egg.hatchTime > 0

\* The loop of HatchingSystem.tick over GS.eggs from index i on
RECURSIVE HatchFrom(_, _, _, _, _)
HatchFrom(gs, eggs, i, t, pick) ==
    IF i > Len(eggs) THEN gs
    ELSE IF EggIsDue(eggs[i], t)
         THEN HatchFrom(createAnimalFromEgg(gs, eggs[i], pick[i]), eggs, i + 1, t, pick)
         ELSE HatchFrom(gs, eggs, i + 1, t, pick)

\* A tick that puts the eggs it keeps at the front of the new array
\* (unshift for push: not the source's)
HatchingTickNewestFirst(gs, t, pick) ==
    LET hatched == HatchFrom(gs, gs.eggs, 1, t, pick)
        remainingEggs == SelectSeq(gs.eggs, LAMBDA e : ~EggIsDue(e, t))
    IN [hatched EXCEPT !.eggs =
           [i \in 1..Len(remainingEggs) |-> remainingEggs[Len(remainingEggs) + 1 - i]]]

\* A tick that consumes an egg only when an animal came out of it (not the
\* source's: the loop drops every due egg)
HatchingTickKeepingUnhatched(gs, t, pick) ==
    LET hatched == HatchFrom(gs, gs.eggs, 1, t, pick) IN
    [hatched EXCEPT !.eggs = SelectSeq(gs.eggs, LAMBDA e :
        ~EggIsDue(e, t) \/ Len(getAnimalPoolForEggType(e.type)) = 0)]

\* HatchingSystem.tick()
HatchingTick(gs, t, pick) ==
    LET hatched == HatchFrom(gs, gs.eggs, 1, t, pick) IN
    [hatched EXCEPT !.eggs = SelectSeq(gs.eggs, LAMBDA e : ~EggIsDue(e, t))]

(***************************************************************************)
(* js/systems/cleaning.js                                                  *)
(***************************************************************************)
\* A bath house that would serve the newest arrival first (not the source's
\* behaviour: the variant C3 is tested against)
StartBathNewestFirst(gs, t) ==
    IF gs.currentBath = NoSlot /\ Len(gs.bathQueue) > 0
    THEN [gs EXCEPT !.currentBath = [id |-> gs.bathQueue[Len(gs.bathQueue)], start |-> t,
                                     durationMs |-> BATH_DURATION_MS],
                    !.bathQueue = SubSeq(@, 1, Len(@) - 1)]
    ELSE gs

\* Step 1 of CleaningSystem.tick: start a bath when the bath is free
StartBath(gs, t) ==
    IF gs.currentBath = NoSlot /\ Len(gs.bathQueue) > 0
    THEN [gs EXCEPT !.currentBath = [id |-> Head(gs.bathQueue), start |-> t,
                                     durationMs |-> BATH_DURATION_MS],
                    !.bathQueue = Tail(@)]
    ELSE gs

\* What a finished bath does to its animal
Bathed(a) ==
    [a EXCEPT !.cleanliness = clamp(MAX_CLEANLINESS * Pt, 0, MAX_CLEANLINESS * Pt),
              !.happiness = clamp(@ + 5 * Pt, 0, 100 * Pt)]

\* A step 2 that would wait until more than the duration has elapsed (not
\* the source's)
FinishBathLate(gs, t) ==
    IF gs.currentBath # NoSlot /\ t - gs.currentBath.start > gs.currentBath.durationMs
    THEN LET i == AnimalIndex(gs, gs.currentBath.id) IN
         [gs EXCEPT !.animals = IF i = 0 THEN @ ELSE [@ EXCEPT ![i] = Bathed(@)],
                    !.currentBath = NoSlot]
    ELSE gs

\* Step 2 of CleaningSystem.tick: finish the bath whose time has elapsed
FinishBath(gs, t) ==
    IF gs.currentBath # NoSlot /\ t - gs.currentBath.start >= gs.currentBath.durationMs
    THEN LET i == AnimalIndex(gs, gs.currentBath.id) IN
         [gs EXCEPT !.animals = IF i = 0 THEN @ ELSE [@ EXCEPT ![i] = Bathed(@)],
                    !.currentBath = NoSlot]
    ELSE gs

\* A tick that would finish the bath before it starts the next one (not the
\* source's order)
CleaningTickFinishFirst(gs, t) == StartBath(FinishBath(gs, t), t)

\* CleaningSystem.tick()
CleaningTick(gs, t) == FinishBath(StartBath(gs, t), t)

\* A sendToBathById that would take the coins before it looks at the queue
\* (not the source's behaviour: the variant C11 is tested against)
sendToBathChargingFirst(gs, animalId) ==
    LET i == AnimalIndex(gs, animalId) IN
    IF i = 0 THEN gs
    ELSE LET cleanCost == gs.animals[i].income * CLEAN_COST_MULTIPLIER
             charged == [gs EXCEPT !.coins = IF @ >= cleanCost THEN @ - cleanCost ELSE @]
         IN IF animalId \in SeqToSet(gs.bathQueue) THEN charged
            ELSE IF gs.currentBath # NoSlot /\ gs.currentBath.id = animalId THEN charged
            ELSE IF gs.coins < cleanCost THEN gs
            ELSE [charged EXCEPT !.bathQueue = Append(@, animalId)]

\* A sendToBathById that would not look for the animal in the bath house
\* (not the source's behaviour: the variant C15 is tested against)
sendToBathUnseen(gs, animalId) ==
    LET i == AnimalIndex(gs, animalId) IN
    IF i = 0 THEN gs
    ELSE LET cleanCost == gs.animals[i].income * CLEAN_COST_MULTIPLIER IN
         IF cleanCost > 0 /\ gs.coins < cleanCost THEN gs
         ELSE [gs EXCEPT !.coins = IF cleanCost > 0 THEN @ - cleanCost ELSE @,
                         !.bathQueue = Append(@, animalId)]

\* CleaningSystem.sendToBathById(animalId): the state it leaves
sendToBathById(gs, animalId) ==
    LET i == AnimalIndex(gs, animalId) IN
    IF i = 0 THEN gs
    ELSE IF animalId \in SeqToSet(gs.bathQueue) THEN gs
    ELSE IF gs.currentBath # NoSlot /\ gs.currentBath.id = animalId THEN gs
    ELSE LET cleanCost == gs.animals[i].income * CLEAN_COST_MULTIPLIER IN
         IF cleanCost > 0 /\ gs.coins < cleanCost THEN gs
         ELSE [gs EXCEPT !.coins = IF cleanCost > 0 THEN @ - cleanCost ELSE @,
                         !.bathQueue = Append(@, animalId)]

(***************************************************************************)
(* js/systems/feeding.js                                                   *)
(***************************************************************************)
\* A feeding that would also cure (not the source's behaviour: the variant
\* C13 is tested against)
feedAnimalCuring(gs, animalId) ==
    LET i == AnimalIndex(gs, animalId) IN
    IF i = 0 THEN gs
    ELSE IF gs.coins < gs.animals[i].income * FEED_COST_MULTIPLIER THEN gs
    ELSE [gs EXCEPT !.coins = @ - gs.animals[i].income * FEED_COST_MULTIPLIER,
                    !.animals[i].hunger = MAX_HUNGER * Pt,
                    !.animals[i].healthStatus = "healthy"]

\* FeedingSystem.feedAnimalById(animalId): the state it leaves
feedAnimalById(gs, animalId) ==
    LET i == AnimalIndex(gs, animalId) IN
    IF i = 0 THEN gs
    ELSE LET feedCost == gs.animals[i].income * FEED_COST_MULTIPLIER IN
         IF feedCost > 0 /\ gs.coins < feedCost THEN gs
         ELSE [gs EXCEPT !.coins = IF feedCost > 0 THEN @ - feedCost ELSE @,
                         !.animals[i].hunger = clamp(100 * Pt, 0, MAX_HUNGER * Pt),
                         !.animals[i].happiness = clamp(@ + 5 * Pt, 0, 100 * Pt)]

(***************************************************************************)
(* js/systems/disease.js                                                   *)
(***************************************************************************)
\* A sickness check that would wait for the counter to pass the threshold
\* (not the source's behaviour: the variant C14 is tested against)
UpdateSicknessLate(a) ==
    IF a.healthStatus = "sick" THEN a
    ELSE LET isNeglected == /\ a.hunger < NEGLECT_THRESHOLD_HUNGER * Pt
                            /\ a.cleanliness < NEGLECT_THRESHOLD_CLEANLINESS * Pt
             n1 == IF isNeglected THEN a.neglectTicks + 1
                   ELSE IF a.neglectTicks > 0 THEN a.neglectTicks - 1
                   ELSE a.neglectTicks
         IN IF n1 > NEGLECT_TICKS_BEFORE_SICK
            THEN [a EXCEPT !.neglectTicks = n1,
                           !.healthStatus = "sick",
                           !.happiness = clamp(@ - 15 * Pt, 0, 100 * Pt)]
            ELSE [a EXCEPT !.neglectTicks = n1]

\* A sickness check that goes on counting for a sick animal (not the
\* source's: the loop continues past it)
UpdateSicknessOfSick(a) ==
    LET isNeglected == /\ a.hunger < NEGLECT_THRESHOLD_HUNGER * Pt
                       /\ a.cleanliness < NEGLECT_THRESHOLD_CLEANLINESS * Pt
        n1 == IF isNeglected THEN a.neglectTicks + 1
              ELSE IF a.neglectTicks > 0 THEN a.neglectTicks - 1
              ELSE a.neglectTicks
        n2 == IF n1 < 0 THEN 0 ELSE n1
        n3 == IF n2 > NEGLECT_TICKS_BEFORE_SICK * 2
              THEN NEGLECT_TICKS_BEFORE_SICK * 2 ELSE n2
    IN IF n3 >= NEGLECT_TICKS_BEFORE_SICK /\ a.healthStatus # "sick"
       THEN [a EXCEPT !.neglectTicks = n3,
                      !.healthStatus = "sick",
                      !.happiness = clamp(@ - 15 * Pt, 0, 100 * Pt)]
       ELSE [a EXCEPT !.neglectTicks = n3]

\* The body of checkAndUpdateSickness's loop, for one animal
UpdateSickness(a) ==
    IF a.healthStatus = "sick" THEN a
    ELSE LET isNeglected == /\ a.hunger < NEGLECT_THRESHOLD_HUNGER * Pt
                            /\ a.cleanliness < NEGLECT_THRESHOLD_CLEANLINESS * Pt
             n1 == IF isNeglected THEN a.neglectTicks + 1
                   ELSE IF a.neglectTicks > 0 THEN a.neglectTicks - 1
                   ELSE a.neglectTicks
             n2 == IF n1 < 0 THEN 0 ELSE n1
             n3 == IF n2 > NEGLECT_TICKS_BEFORE_SICK * 2
                   THEN NEGLECT_TICKS_BEFORE_SICK * 2 ELSE n2
         IN IF n3 >= NEGLECT_TICKS_BEFORE_SICK
            THEN [a EXCEPT !.neglectTicks = n3,
                           !.healthStatus = "sick",
                           !.happiness = clamp(@ - 15 * Pt, 0, 100 * Pt)]
            ELSE [a EXCEPT !.neglectTicks = n3]

\* checkAndUpdateSickness()
checkAndUpdateSickness(gs) ==
    [gs EXCEPT !.animals = [i \in DOMAIN @ |-> UpdateSickness(@[i])]]

\* What a finished treatment does to its animal
Cured(a) ==
    [a EXCEPT !.healthStatus = "healthy",
              !.neglectTicks = 0,
              !.happiness = clamp(@ + 10 * Pt, 0, 100 * Pt)]

\* Step 1 of processClinic: start a treatment when the clinic is free
StartTreatment(gs, t) ==
    IF gs.currentPatient = NoSlot /\ Len(gs.clinicQueue) > 0
    THEN [gs EXCEPT !.currentPatient = [id |-> Head(gs.clinicQueue), start |-> t,
                                        durationMs |-> CLINIC_DURATION_MS],
                    !.clinicQueue = Tail(@)]
    ELSE gs

\* A step 2 that would keep the slot of a patient it cannot find (not the
\* source's)
FinishTreatmentOfPresent(gs, t) ==
    IF gs.currentPatient # NoSlot
       /\ t - gs.currentPatient.start >= gs.currentPatient.durationMs
       /\ AnimalIndex(gs, gs.currentPatient.id) # 0
    THEN LET i == AnimalIndex(gs, gs.currentPatient.id) IN
         [gs EXCEPT !.animals = [@ EXCEPT ![i] = Cured(@)],
                    !.currentPatient = NoSlot]
    ELSE gs

\* Step 2 of processClinic: finish the treatment whose time has elapsed
FinishTreatment(gs, t) ==
    IF gs.currentPatient # NoSlot
       /\ t - gs.currentPatient.start >= gs.currentPatient.durationMs
    THEN LET i == AnimalIndex(gs, gs.currentPatient.id) IN
         [gs EXCEPT !.animals = IF i = 0 THEN @ ELSE [@ EXCEPT ![i] = Cured(@)],
                    !.currentPatient = NoSlot]
    ELSE gs

\* processClinic()
processClinic(gs, t) == FinishTreatment(StartTreatment(gs, t), t)

\* DiseaseSystem.tick()
DiseaseTick(gs, t) == processClinic(checkAndUpdateSickness(gs), t)

\* A clinic that admits an animal without looking at its health (not the
\* source's: sendToClinicById returns false for a healthy animal)
sendToClinicUnexamined(gs, animalId) ==
    LET i == AnimalIndex(gs, animalId) IN
    IF i = 0 THEN gs
    ELSE IF animalId \in SeqToSet(gs.clinicQueue) THEN gs
    ELSE IF gs.currentPatient # NoSlot /\ gs.currentPatient.id = animalId THEN gs
    ELSE LET clinicCost == gs.animals[i].income * CLINIC_COST_MULTIPLIER IN
         IF clinicCost > 0 /\ gs.coins < clinicCost THEN gs
         ELSE [gs EXCEPT !.coins = IF clinicCost > 0 THEN @ - clinicCost ELSE @,
                         !.clinicQueue = Append(@, animalId)]

\* DiseaseSystem.sendToClinicById(animalId): the state it leaves
sendToClinicById(gs, animalId) ==
    LET i == AnimalIndex(gs, animalId) IN
    IF i = 0 THEN gs
    ELSE IF gs.animals[i].healthStatus # "sick" THEN gs
    ELSE IF animalId \in SeqToSet(gs.clinicQueue) THEN gs
    ELSE IF gs.currentPatient # NoSlot /\ gs.currentPatient.id = animalId THEN gs
    ELSE LET clinicCost == gs.animals[i].income * CLINIC_COST_MULTIPLIER IN
         IF clinicCost > 0 /\ gs.coins < clinicCost THEN gs
         ELSE [gs EXCEPT !.coins = IF clinicCost > 0 THEN @ - clinicCost ELSE @,
                         !.clinicQueue = Append(@, animalId)]

(***************************************************************************)
(* js/systems/habitat.js                                                   *)
(***************************************************************************)
\* habitat.capacity as ensureHabitatState and assignToHabitat recompute it
HabitatCapacity(gs, key) ==
    HabitatConfig[key].baseCapacity
        + (gs.habitats[key].level - 1) * HabitatConfig[key].capacityPerLevel

\* ensureHabitatState(): every configured habitat exists, level at least 1
ensureHabitatState(gs) ==
    IF \A k \in HabitatKeys : gs.habitats[k].level >= 1 THEN gs
    ELSE [gs EXCEPT !.habitats =
            [k \in HabitatKeys |-> [@[k] EXCEPT !.level = IF @ < 1 THEN 1 ELSE @]]]

\* ids.filter(id => GS.animals.some(a => a.id === id))
ExistingIds(gs, ids) == SelectSeq(ids, LAMBDA id : id \in AnimalIds(gs))

\* An assignToHabitat that would leave the animal's id in its previous
\* habitat (not the source's behaviour: the variant C22 is tested against)
assignToHabitatKeepingOld(gs, animalId, habitatKey) ==
    LET g1 == ensureHabitatState(gs)
        i == AnimalIndex(g1, animalId)
    IN
    IF i = 0 THEN g1
    ELSE IF habitatKey \notin HabitatKeys THEN g1
    ELSE LET existingIds == ExistingIds(g1, g1.habitats[habitatKey].animalIds)
             g2 == [g1 EXCEPT !.habitats[habitatKey].animalIds = existingIds]
         IN
         IF Len(existingIds) >= HabitatCapacity(g2, habitatKey) THEN g2
         ELSE [g2 EXCEPT !.habitats[habitatKey].animalIds = Append(@, animalId),
                         !.animals[i].habitat = habitatKey]

\* HabitatSystem.assignToHabitat(animalId, habitatKey): the state it leaves
assignToHabitat(gs, animalId, habitatKey) ==
    LET g1 == ensureHabitatState(gs)
        i == AnimalIndex(g1, animalId)
    IN
    IF i = 0 THEN g1
    ELSE IF habitatKey \notin HabitatKeys THEN g1
    ELSE LET existingIds == ExistingIds(g1, g1.habitats[habitatKey].animalIds)
             g2 == [g1 EXCEPT !.habitats[habitatKey].animalIds = existingIds]
         IN
         IF Len(existingIds) >= HabitatCapacity(g2, habitatKey) THEN g2
         ELSE LET old == g2.animals[i].habitat
                  g3 == IF old \in HabitatKeys
                        THEN [g2 EXCEPT !.habitats[old].animalIds =
                                  SelectSeq(@, LAMBDA id : id # animalId)]
                        ELSE g2
              IN [g3 EXCEPT !.habitats[habitatKey].animalIds = Append(@, animalId),
                            !.animals[i].habitat = habitatKey]

\* A clean-up that leaves the lists as they are (not the source's)
cleanUpNothing(gs) == ensureHabitatState(gs)

\* cleanUpHabitatAssignments()
cleanUpHabitatAssignments(gs) ==
    LET g1 == ensureHabitatState(gs) IN
    IF \A k \in HabitatKeys : SeqToSet(g1.habitats[k].animalIds) \subseteq AnimalIds(g1)
    THEN g1
    ELSE [g1 EXCEPT !.habitats =
            [k \in HabitatKeys |-> [@[k] EXCEPT !.animalIds = ExistingIds(g1, @)]]]

\* The body of applyHabitatEffects's forEach, for one animal
HabitatEffect(a) ==
    IF a.habitat = "none"
    THEN [a EXCEPT !.habitatBonusMultiplier = 100,
                   !.happiness = clamp(@ - 50, 0, 100 * Pt)]
    ELSE IF a.habitat \notin HabitatKeys
    THEN [a EXCEPT !.habitatBonusMultiplier = 100]
    ELSE IF a.fromEggType \in HabitatConfig[a.habitat].supportedEggTypes
    THEN [a EXCEPT !.habitatBonusMultiplier = HabitatConfig[a.habitat].bonusMultiplier,
                   !.happiness = clamp(@ + 1 * Pt, 0, 100 * Pt)]
    ELSE [a EXCEPT !.habitatBonusMultiplier = HabitatConfig[a.habitat].penaltyMultiplier,
                   !.happiness = clamp(@ - 1 * Pt, 0, 100 * Pt)]

\* applyHabitatEffects()
applyHabitatEffects(gs) ==
    [gs EXCEPT !.animals = [i \in DOMAIN @ |-> HabitatEffect(@[i])]]

\* HabitatSystem.tick()
HabitatTick(gs) == applyHabitatEffects(cleanUpHabitatAssignments(ensureHabitatState(gs)))

(***************************************************************************)
(* js/systems/happiness.js                                                 *)
(***************************************************************************)
\* computeHappinessMultiplier(happiness), in hundredths
computeHappinessMultiplier(happiness) ==
    IF happiness >= 90 * Pt THEN 130
    ELSE IF happiness >= 80 * Pt THEN 120
    ELSE IF happiness >= 60 * Pt THEN 110
    ELSE IF happiness >= 40 * Pt THEN 100
    ELSE IF happiness >= 20 * Pt THEN 75
    ELSE 50

\* updateSingleAnimalHappiness(animal)
updateSingleAnimalHappiness(a) ==
    LET hunger == clamp(a.hunger - HUNGER_DECAY_PER_TICK, 0, 100 * Pt)
        cleanliness == a.cleanliness
        sick == a.healthStatus = "sick"
        h0 == a.happiness + NATURAL_DRIFT_PER_TICK
        h1 == IF hunger < HUNGER_OK_THRESHOLD * Pt THEN h0 + PENALTY_PER_TICK_HUNGRY ELSE h0
        h2 == IF cleanliness < CLEANLINESS_OK_THRESHOLD * Pt
              THEN h1 + PENALTY_PER_TICK_DIRTY ELSE h1
        h3 == IF sick THEN h2 + PENALTY_PER_TICK_SICK ELSE h2
        h4 == IF /\ hunger >= HUNGER_OK_THRESHOLD * Pt
                 /\ cleanliness >= CLEANLINESS_OK_THRESHOLD * Pt
                 /\ ~sick
              THEN h3 + BONUS_PER_TICK_WELL_CARED ELSE h3
        happiness == clamp(h4, HAPPINESS_MIN * Pt, HAPPINESS_MAX * Pt)
        multiplier == computeHappinessMultiplier(happiness)
    IN [a EXCEPT !.hunger = hunger,
                 !.happiness = happiness,
                 !.happinessIncomeMultiplier = multiplier,
                 !.effectiveIncome = a.income * multiplier]

\* HappinessSystem.tick()
HappinessTick(gs) ==
    [gs EXCEPT !.animals = [i \in DOMAIN @ |-> updateSingleAnimalHappiness(@[i])]]

(***************************************************************************)
(* js/systems/economy.js                                                   *)
(***************************************************************************)
\* canEarn of EconomySystem.tick
canEarn(a) ==
    /\ a.income > 0
    /\ a.hunger > 0
    /\ a.cleanliness > 0
    /\ a.healthStatus # "sick"

\* What one animal adds to totalIncomePerSecond in EconomySystem.tick
Contribution(a) == IF canEarn(a) THEN a.income ELSE 0

RECURSIVE SumIncome(_, _)
SumIncome(animals, i) ==
    IF i > Len(animals) THEN 0
    ELSE Contribution(animals[i]) + SumIncome(animals, i + 1)

\* EconomySystem.tick()
EconomyTick(gs) ==
    LET totalIncomePerSecond == SumIncome(gs.animals, 1) IN
    [gs EXCEPT !.coins = @ + totalIncomePerSecond,
               !.incomePerSecond = totalIncomePerSecond]

\* window.EggData is an object literal: besides its own three keys a lookup
\* finds what Object.prototype gives every object.  "constructor" stands
\* for these keys; the value found is the function Object.
InheritedKeys == {"constructor"}

\* window.EggData[typeKey] as buyEgg reads it: Number(eggDef.price) || 0
\* and Number(eggDef.hatchTime) || 0, which are 0 for a value that has
\* neither property
EggDef(typeKey) ==
    IF typeKey \in EggTypeKeys THEN EggData[typeKey]
    ELSE [price |-> 0, hatchTime |-> 0]

\* !eggDef
NoEggDef(typeKey) == typeKey \notin EggTypeKeys \cup InheritedKeys

\* A shop that sells without looking at the balance (not the source's)
buyEggOnCredit(gs, typeKey, id, t) ==
    IF NoEggDef(typeKey) THEN gs
    ELSE [gs EXCEPT !.coins = @ - EggDef(typeKey).price,
                    !.eggs = Append(@, [id |-> id, type |-> typeKey, start |-> t,
                                        hatchTime |-> EggDef(typeKey).hatchTime])]

\* EconomySystem.buyEgg(typeKey); id is the value Utils.id("egg") returns
buyEgg(gs, typeKey, id, t) ==
    IF NoEggDef(typeKey) THEN gs
    ELSE IF gs.coins < EggDef(typeKey).price THEN gs
    ELSE [gs EXCEPT !.coins = @ - EggDef(typeKey).price,
                    !.eggs = Append(@, [id |-> id, type |-> typeKey, start |-> t,
                                        hatchTime |-> EggDef(typeKey).hatchTime])]

\* EconomySystem.sellAnimalById(animalId): the state it leaves
sellAnimalById(gs, animalId) ==
    LET index == AnimalIndex(gs, animalId) IN
    IF index = 0 THEN gs
    ELSE [gs EXCEPT !.coins = @ + gs.animals[index].income * SELL_MULTIPLIER,
                    !.animals = SubSeq(@, 1, index - 1) \o SubSeq(@, index + 1, Len(@)),
                    !.bathQueue = SelectSeq(@, LAMBDA id : id # animalId),
                    !.currentBath = IF @ # NoSlot /\ @.id = animalId THEN NoSlot ELSE @]

(***************************************************************************)
(* js/systems/events.js                                                    *)
(***************************************************************************)
EventIds == {"visitor_donation", "lost_tickets", "happy_parade", "muddy_rain",
             "double_tips"}

\* template.effect() of EventTemplates; rnd is Math.floor(Math.random() * n)
EventEffect(gs, id, rnd) ==
    CASE id = "visitor_donation" -> [gs EXCEPT !.coins = @ + 20 + rnd]
      [] id = "lost_tickets" -> [gs EXCEPT !.coins = @ - Min(gs.coins, 10 + rnd)]
      [] id = "happy_parade" ->
            [gs EXCEPT !.animals = [i \in DOMAIN @ |->
                [@[i] EXCEPT !.happiness = clamp(@ + 10 * Pt, 0, 100 * Pt)]]]
      [] id = "muddy_rain" ->
            [gs EXCEPT !.animals = [i \in DOMAIN @ |->
                [@[i] EXCEPT !.cleanliness = clamp(@ - 15 * Pt, 0, 100 * Pt)]]]
      [] id = "double_tips" ->
            [gs EXCEPT !.coins = @ + 30 + rnd,
                       !.modifiers.incomeBoostMultiplier = @ * 2]

\* template.durationMs || 0
EventDuration(id) == IF id = "double_tips" THEN DOUBLE_TIPS_DURATION_MS ELSE 0

\* A revert that sets the multiplier to 1 (not the source's)
EventRevertToOne(gs, id) ==
    IF id = "double_tips"
    THEN [gs EXCEPT !.modifiers.incomeBoostMultiplier = 1]
    ELSE gs

\* template.revert(), for the templates that have one
EventRevert(gs, id) ==
    IF id = "double_tips"
    THEN [gs EXCEPT !.modifiers.incomeBoostMultiplier = @ \div 2]
    ELSE gs

\* Whether processActiveEvents ends the active event ev at time t
EventExpired(ev, t) == ev.durationMs > 0 /\ t - ev.startedAt >= ev.durationMs

RECURSIVE RevertExpired(_, _, _, _)
RevertExpired(gs, evs, i, t) ==
    IF i > Len(evs) THEN gs
    ELSE IF EventExpired(evs[i], t)
         THEN RevertExpired(EventRevert(gs, evs[i].id), evs, i + 1, t)
         ELSE RevertExpired(gs, evs, i + 1, t)

\* processActiveEvents(now)
processActiveEvents(gs, t) ==
    LET reverted == RevertExpired(gs, gs.events.activeEvents, 1, t) IN
    [reverted EXCEPT !.events.activeEvents =
        SelectSeq(gs.events.activeEvents, LAMBDA ev : ~EventExpired(ev, t))]

\* triggerRandomEventIfNeeded with the last-trigger time written only where
\* the active set is written, for a timed template
triggerRandomEventTimedOnly(gs, t, roll) ==
    IF t - gs.events.lastEventTime < MIN_TIME_BETWEEN_EVENTS_MS THEN gs
    ELSE IF ~roll.fire THEN gs
    ELSE LET applied == EventEffect(gs, roll.id, roll.rnd)
             eventRecord == [id |-> roll.id, startedAt |-> t,
                             durationMs |-> EventDuration(roll.id)]
         IN [applied EXCEPT
                !.events.history = Append(@, eventRecord),
                !.events.activeEvents =
                    IF EventDuration(roll.id) > 0 THEN Append(@, eventRecord) ELSE @,
                !.events.lastEventTime = IF EventDuration(roll.id) > 0 THEN t ELSE @]

\* triggerRandomEventIfNeeded(now); roll.fire is Math.random() <= EVENT_CHANCE_PER_TICK,
\* roll.id the template Utils.randomChoice draws, roll.rnd the effect's random part
triggerRandomEventIfNeeded(gs, t, roll) ==
    IF t - gs.events.lastEventTime < MIN_TIME_BETWEEN_EVENTS_MS THEN gs
    ELSE IF ~roll.fire THEN gs
    ELSE LET applied == EventEffect(gs, roll.id, roll.rnd)
             eventRecord == [id |-> roll.id, startedAt |-> t,
                             durationMs |-> EventDuration(roll.id)]
         IN [applied EXCEPT
                !.events.history = Append(@, eventRecord),
                !.events.activeEvents =
                    IF EventDuration(roll.id) > 0 THEN Append(@, eventRecord) ELSE @,
                !.events.lastEventTime = t]

\* EventsSystem.tick()
EventsTick(gs, t, roll) == triggerRandomEventIfNeeded(processActiveEvents(gs, t), t, roll)

(***************************************************************************)
(* js/systems/lose.js                                                      *)
(***************************************************************************)
\* getCheapestEggPrice()
getCheapestEggPrice ==
    CHOOSE p \in {EggData[k].price : k \in EggTypeKeys} :
        \A k \in EggTypeKeys : p <= EggData[k].price

checkBankrupt(gs) == gs.coins < 0

checkNoAnimalsOrEggs(gs) ==
    /\ Len(gs.animals) = 0
    /\ Len(gs.eggs) = 0
    /\ gs.coins < getCheapestEggPrice

checkAllUnhappy(gs) ==
    /\ Len(gs.animals) > 0
    /\ \A i \in DOMAIN gs.animals : gs.animals[i].happiness <= 0

\* A game over that is flagged without its reason (not the source's)
setGameOverUnexplained(gs, reason) ==
    IF gs.isGameOver THEN gs
    ELSE [gs EXCEPT !.isGameOver = TRUE]

\* setGameOver(reason)
setGameOver(gs, reason) ==
    IF gs.isGameOver THEN gs
    ELSE [gs EXCEPT !.isGameOver = TRUE, !.gameOverReason = reason]

\* An evaluator that would test no_animals before bankrupt (not the source's
\* behaviour: the variant C9 is tested against)
LoseTickNoAnimalsFirst(gs) ==
    IF gs.isGameOver THEN gs
    ELSE IF checkNoAnimalsOrEggs(gs) THEN setGameOver(gs, "no_animals")
    ELSE IF checkBankrupt(gs) THEN setGameOver(gs, "bankrupt")
    ELSE IF checkAllUnhappy(gs) THEN setGameOver(gs, "all_unhappy")
    ELSE gs

\* LoseSystem.tick()
LoseTick(gs) ==
    IF gs.isGameOver THEN gs
    ELSE IF checkBankrupt(gs) THEN setGameOver(gs, "bankrupt")
    ELSE IF checkNoAnimalsOrEggs(gs) THEN setGameOver(gs, "no_animals")
    ELSE IF checkAllUnhappy(gs) THEN setGameOver(gs, "all_unhappy")
    ELSE gs

\* resetHabitats(), and the same loop in resetZooForNewRun
resetHabitats(gs) ==
    [gs EXCEPT !.habitats = [k \in DOMAIN @ |-> [@[k] EXCEPT !.animalIds = <<>>]]]

\* A restart that would also take back the permanent bonus (not the
\* source's behaviour: the variant C18 is tested against)
restartGameFromScratch(gs) ==
    [resetHabitats(gs) EXCEPT
        !.coins = 100,
        !.incomePerSecond = 0,
        !.animals = <<>>,
        !.eggs = <<>>,
        !.bathQueue = <<>>,
        !.currentBath = NoSlot,
        !.clinicQueue = <<>>,
        !.currentPatient = NoSlot,
        !.events = [activeEvents |-> <<>>, history |-> <<>>, lastEventTime |-> 0],
        !.modifiers.incomeBoostMultiplier = 1,
        !.modifiers.globalPrestigeMultiplier = InitialGameState.modifiers.globalPrestigeMultiplier,
        !.isGameOver = FALSE,
        !.gameOverReason = "none"]

\* LoseSystem.restartGame()
restartGame(gs) ==
    [resetHabitats(gs) EXCEPT
        !.coins = 100,
        !.incomePerSecond = 0,
        !.animals = <<>>,
        !.eggs = <<>>,
        !.bathQueue = <<>>,
        !.currentBath = NoSlot,
        !.clinicQueue = <<>>,
        !.currentPatient = NoSlot,
        !.events = [activeEvents |-> <<>>, history |-> <<>>, lastEventTime |-> 0],
        !.modifiers.incomeBoostMultiplier = 1,
        !.isGameOver = FALSE,
        !.gameOverReason = "none"]

(***************************************************************************)
(* js/systems/prestige.js                                                  *)
(***************************************************************************)
\* A test that would let one of the two thresholds do (not the source's
\* behaviour: the variant C19 is tested against)
canPrestigeOnEither(gs) ==
    \/ gs.coins >= MIN_COINS_FOR_PRESTIGE
    \/ Len(gs.animals) >= MIN_ANIMALS_FOR_PRESTIGE

\* canPrestige()
canPrestige(gs) ==
    /\ gs.coins >= MIN_COINS_FOR_PRESTIGE
    /\ Len(gs.animals) >= MIN_ANIMALS_FOR_PRESTIGE

rarityRank(r) ==
    CASE r = "Common" -> 1
      [] r = "Uncommon" -> 2
      [] r = "Rare" -> 3
      [] r = "Epic" -> 4
      [] r = "Legendary" -> 5
      [] OTHER -> 0

\* buildRunSummary(), without timePlayed
buildRunSummary(gs) ==
    LET ranks == {rarityRank(gs.animals[i].rarity) : i \in DOMAIN gs.animals}
        highestRank == IF ranks = {} THEN 0
                       ELSE CHOOSE r \in ranks : \A q \in ranks : q <= r
        first == CHOOSE i \in DOMAIN gs.animals :
                    /\ rarityRank(gs.animals[i].rarity) = highestRank
                    /\ \A j \in DOMAIN gs.animals :
                          rarityRank(gs.animals[j].rarity) = highestRank => i <= j
    IN [ coins |-> gs.coins,
         maxCoins |-> gs.coins,
         petsHatched |-> Len(gs.animals),
         highestRarity |-> IF highestRank = 0 THEN "Unknown" ELSE gs.animals[first].rarity,
         prestigesBefore |-> gs.prestige.count,
         prestigesAfter |-> gs.prestige.count + 1 ]

applyPrestigeRewards(gs) ==
    [gs EXCEPT !.prestige.count = @ + 1,
               !.prestige.totalPrestigePoints = @ + 1,
               !.modifiers.globalPrestigeMultiplier =
                    @ + PRESTIGE_REWARD_INCOME_BOOST_PER_PRESTIGE]

\* A reset that would forget to empty the bath (not the source's behaviour:
\* the variant C7 is tested against)
resetZooLeavingBath(gs) ==
    [resetHabitats(gs) EXCEPT
        !.coins = STARTING_COINS_AFTER_PRESTIGE,
        !.incomePerSecond = 0,
        !.animals = <<>>,
        !.eggs = <<>>,
        !.bathQueue = <<>>,
        !.clinicQueue = <<>>,
        !.currentPatient = NoSlot,
        !.events = [activeEvents |-> <<>>, history |-> <<>>, lastEventTime |-> 0]]

resetZooForNewRun(gs) ==
    [resetHabitats(gs) EXCEPT
        !.coins = STARTING_COINS_AFTER_PRESTIGE,
        !.incomePerSecond = 0,
        !.animals = <<>>,
        !.eggs = <<>>,
        !.bathQueue = <<>>,
        !.currentBath = NoSlot,
        !.clinicQueue = <<>>,
        !.currentPatient = NoSlot,
        !.events = [activeEvents |-> <<>>, history |-> <<>>, lastEventTime |-> 0]]

\* PrestigeSystem.doPrestige(): the state it leaves
doPrestige(gs) ==
    IF ~canPrestige(gs) THEN gs
    ELSE LET summary == buildRunSummary(gs)
             rewarded == applyPrestigeRewards(gs)
             logged == [rewarded EXCEPT !.leaderboard =
                           Append(@, [summary EXCEPT !.prestigesAfter = rewarded.prestige.count])]
         IN resetZooForNewRun(logged)

(***************************************************************************)
(* js/main.js                                                              *)
(***************************************************************************)
\* gameTick(): the seven system ticks, in the order of the source.  pick is
\* the randomChoice index for each egg slot, roll the random inputs of the
\* events system.
gameTick(gs, t, pick, roll) ==
    LET afterHatching == HatchingTick(gs, t, pick)
        afterCleaning == CleaningTick(afterHatching, t)
        afterDisease == DiseaseTick(afterCleaning, t)
        afterHabitat == HabitatTick(afterDisease)
        afterHappiness == HappinessTick(afterHabitat)
        afterEvents == EventsTick(afterHappiness, t, roll)
    IN EconomyTick(afterEvents)

\* What step 2 of CleaningSystem.tick finishes at time t, as a bathLog entry
BathFinishing(gs, t) ==
    LET slot == StartBath(gs, t).currentBath IN
    IF slot # NoSlot /\ t - slot.start >= slot.durationMs
    THEN << [id |-> slot.id, start |-> slot.start, at |-> t] >>
    ELSE << >>

\* let gameLoopHandle = null
NoHandle == 0

\* A startGameLoop that would not test the handle (not the source's
\* behaviour: the variant C12 is tested against)
startGameLoopUntested(l) ==
    [gameLoopHandle |-> l.issued + 1,
     intervals |-> l.intervals \cup {l.issued + 1},
     issued |-> l.issued + 1]

\* startGameLoop(): window.setInterval returns a handle not issued before
startGameLoop(l) ==
    IF l.gameLoopHandle # NoHandle THEN l
    ELSE [gameLoopHandle |-> l.issued + 1,
          intervals |-> l.intervals \cup {l.issued + 1},
          issued |-> l.issued + 1]

\* stopGameLoop(): window.clearInterval(gameLoopHandle)
stopGameLoop(l) ==
    IF l.gameLoopHandle = NoHandle THEN l
    ELSE [l EXCEPT !.intervals = @ \ {l.gameLoopHandle}, !.gameLoopHandle = NoHandle]

\* restartGameLoop()
restartGameLoop(l) == startGameLoop(stopGameLoop(l))

\* onDomReady() has called startGameLoop()
LoopAtLoad ==
    startGameLoop([gameLoopHandle |-> NoHandle, intervals |-> {}, issued |-> 0])

(***************************************************************************)
(* Random inputs                                                           *)
(***************************************************************************)
\* Math.floor(Math.random() * n) of the three coin events: lowest and highest
EventRnd(id) ==
    CASE id = "visitor_donation" -> {0, 29}
      [] id = "lost_tickets" -> {0, 19}
      [] id = "double_tips" -> {0, 49}
      [] OTHER -> {0}

NoEvent == [fire |-> FALSE, id |-> "visitor_donation", rnd |-> 0]

EventRolls ==
    {NoEvent} \cup
    UNION {{[fire |-> TRUE, id |-> id, rnd |-> r] : r \in EventRnd(id)} : id \in EventIds}

\* Utils.randomChoice over a pool: one draw for each egg that hatches at
\* time t (the other places of pick are not read)
HatchPicks(gs, t) ==
    {pick \in [1..Len(gs.eggs) -> 1..2] :
        \A i \in 1..Len(gs.eggs) : ~EggIsDue(gs.eggs[i], t) => pick[i] = 1}

\* The event rolls a tick at time t draws from: triggerRandomEventIfNeeded
\* returns before Math.random() while the cooldown lasts
RollsDrawn(gs, t, rolls) ==
    IF t - gs.events.lastEventTime < MIN_TIME_BETWEEN_EVENTS_MS THEN {NoEvent} ELSE rolls

(***************************************************************************)
(* Runs of the game that lead to the states the exploration starts from    *)
(***************************************************************************)
\* One game tick at time t in a scripted run: every hatch draws pool entry
\* choice, the event roll is roll.  (Comparing the result with gs makes TLC
\* compute it here rather than when it is first read.)
ScriptedTick(gs, t, choice, roll) ==
    LET ticked == gameTick(gs, t, [i \in 1..Len(gs.eggs) |-> choice], roll)
    IN IF ticked = gs THEN gs ELSE ticked

\* n game ticks, one TICK_MS apart, after time t.  (Binding mid over a
\* singleton set makes TLC finish the first half of the run before it
\* starts the second.)
RECURSIVE Elapse(_, _, _, _, _)
Elapse(gs, t, n, choice, roll) ==
    IF n = 0 THEN gs
    ELSE IF n = 1 THEN ScriptedTick(gs, t + TICK_MS, choice, roll)
    ELSE CHOOSE out \in
            { Elapse(mid, t + (n \div 2) * TICK_MS, n - (n \div 2), choice, roll) :
                mid \in {Elapse(gs, t, n \div 2, choice, roll)} } : TRUE

StartTime == MIN_TIME_BETWEEN_EVENTS_MS

Rain == [fire |-> TRUE, id |-> "muddy_rain", rnd |-> 0]

\* One common egg bought at load time, then n ticks under muddy rain
OneNeglected(n) ==
    Elapse(buyEgg(InitialGameState, "common", 1, StartTime), StartTime, n, 1, Rain)

\* Two common eggs bought at load time, n ticks into their incubation
TwoIncubating(n) ==
    Elapse(buyEgg(buyEgg(InitialGameState, "common", 1, StartTime), "common", 2, StartTime),
           StartTime, n, 1, Rain)

Parade == [fire |-> TRUE, id |-> "happy_parade", rnd |-> 0]

\* Three common eggs bought at load time, hatched under parades, all housed
\* in the forest, then left to earn.  (The singleton sets make TLC finish
\* each stage before it starts the next.)
ThreeHoused(n) ==
    LET bought == buyEgg(buyEgg(buyEgg(InitialGameState, "common", 1, StartTime),
                                "common", 2, StartTime), "common", 3, StartTime)
    IN CHOOSE out \in
           { Elapse(housed, StartTime + 7 * TICK_MS, n - 7, 2, Parade) :
               housed \in
                   { assignToHabitat(assignToHabitat(assignToHabitat(hatched, 1, "forest"),
                                                     2, "forest"), 3, "forest") :
                       hatched \in {Elapse(bought, StartTime, 7, 2, Parade)} } } : TRUE

RECURSIVE FeedTimes(_, _, _)
FeedTimes(gs, id, n) ==
    IF n = 0 THEN gs
    ELSE CHOOSE out \in {FeedTimes(fed, id, n - 1) : fed \in {feedAnimalById(gs, id)}} : TRUE

\* The neglected animal, sick, sent to the clinic and n ticks later
OneTreated(n) ==
    CHOOSE out \in
        { Elapse(sent, StartTime + 171 * TICK_MS, n, 1, Rain) :
            sent \in {sendToClinicById(sick, 1) : sick \in {OneNeglected(171)}} } : TRUE

\* The three housed animals given up for a prestige, then one common egg
\* bought in the new run and n ticks under muddy rain.  (The singleton sets
\* make TLC finish each stage before it starts the next.)
NeglectedAfterPrestige(n) ==
    CHOOSE out \in
        { Elapse(buyEgg(newRun, "common", 4, StartTime + 35 * TICK_MS),
                 StartTime + 35 * TICK_MS, n, 1, Rain) :
            newRun \in {doPrestige(housed) : housed \in {ThreeHoused(35)}} } : TRUE

\* One common egg hatched, its animal fed until the coins run out
OneOverfed ==
    CHOOSE out \in
        { FeedTimes(hatched, 1, 16) :
            hatched \in {Elapse(buyEgg(InitialGameState, "common", 1, StartTime),
                                StartTime, 7, 1, NoEvent)} } : TRUE

(***************************************************************************)
(* Initial states: the fresh page load, and eight later moments of play    *)
(***************************************************************************)
Start(gs, t, issued) == [GS |-> gs, now |-> t, idSeq |-> issued]

Starts ==
    { Start(InitialGameState, StartTime, 0),
      Start(OneNeglected(6), StartTime + 6 * TICK_MS, 1),
      Start(TwoIncubating(6), StartTime + 6 * TICK_MS, 2),
      Start(OneOverfed, StartTime + 7 * TICK_MS, 1),
      Start(OneNeglected(100), StartTime + 100 * TICK_MS, 1),
      Start(OneNeglected(170), StartTime + 170 * TICK_MS, 1),
      Start(OneTreated(10), StartTime + 181 * TICK_MS, 1),
      Start(ThreeHoused(35), StartTime + 35 * TICK_MS, 3),
      Start(NeglectedAfterPrestige(170), StartTime + 205 * TICK_MS, 4) }

Init ==
    /\ \E s \in Starts :
          /\ GS = s.GS
          /\ now = s.now
          /\ idSeq = s.idSeq
    /\ ticks = 0
    /\ ops = 0
    /\ bathLog = << >>
    /\ arrivals = << >>
    /\ loop = LoopAtLoad

(***************************************************************************)
(* Actions                                                                 *)
(***************************************************************************)
\* A player operation that changed the state counts against MaxOps
Played(gs) ==
    /\ ops < MaxOps
    /\ GS' = gs
    /\ ops' = IF gs = GS THEN ops ELSE ops + 1
    /\ UNCHANGED <<now, ticks, bathLog>>

\* The interval callback of startGameLoop, for at most limit ticks and with
\* the event roll drawn from rolls
Tick(limit, rolls) ==
    /\ loop.intervals # {}
    /\ ticks < limit
    /\ now' = now + TICK_MS
    /\ ticks' = ticks + 1
    /\ \E pick \in HatchPicks(GS, now'), roll \in RollsDrawn(GS, now', rolls) :
          /\ GS' = gameTick(GS, now', pick, roll)
          /\ bathLog' = bathLog \o BathFinishing(HatchingTick(GS, now', pick), now')
    /\ UNCHANGED <<idSeq, ops, arrivals, loop>>

\* gameTick()
GameTick == Tick(MaxTicks, EventRolls)

\* The type keys buyEgg can be called with through the exported
\* EconomySystem.buyEgg and UI.handleBuyEgg: the configured ones, one that
\* EggData does not have and one that it inherits
ShopInputs == EggTypeKeys \cup {"unknown"} \cup InheritedKeys

\* handleBuyEgg(typeKey) for one of the given type keys
BuyEggWith(typeKeys) ==
    /\ ~GS.isGameOver
    /\ Len(GS.eggs) < MaxEggs
    /\ \E typeKey \in typeKeys :
          /\ Played(buyEgg(GS, typeKey, idSeq + 1, now))
          /\ idSeq' = IF GS' = GS THEN idSeq ELSE idSeq + 1
    /\ UNCHANGED <<arrivals, loop>>

\* Click on an egg-shop button: onEggShopClick, handleBuyEgg.  The buttons
\* carry the configured keys; "unknown" is a button whose data-egg-type
\* names no egg.
BuyEgg == BuyEggWith(EggTypeKeys \cup {"unknown"})

\* Click on a zoo button with data-action "feed": onZooClick, handleFeedAnimal
Feed ==
    /\ ~GS.isGameOver
    /\ \E animalId \in 1..idSeq : Played(feedAnimalById(GS, animalId))
    /\ UNCHANGED <<idSeq, arrivals, loop>>

\* data-action "clean": handleCleanAnimal
Clean ==
    /\ ~GS.isGameOver
    /\ \E animalId \in 1..idSeq :
          /\ Played(sendToBathById(GS, animalId))
          /\ arrivals' = IF GS' = GS THEN arrivals ELSE Append(arrivals, animalId)
    /\ UNCHANGED <<idSeq, loop>>

\* A sell button that does not look at isGameOver (not the source's:
\* onZooClick returns first)
SellWhileGameOver ==
    /\ \E animalId \in 1..idSeq : Played(sellAnimalById(GS, animalId))
    /\ UNCHANGED <<idSeq, arrivals, loop>>

\* data-action "sell": handleSellAnimal
Sell ==
    /\ ~GS.isGameOver
    /\ \E animalId \in 1..idSeq : Played(sellAnimalById(GS, animalId))
    /\ UNCHANGED <<idSeq, arrivals, loop>>

\* data-action "send-to-clinic": handleSendToClinic
SendToClinic ==
    /\ ~GS.isGameOver
    /\ \E animalId \in 1..idSeq : Played(sendToClinicById(GS, animalId))
    /\ UNCHANGED <<idSeq, arrivals, loop>>

\* The habitats the exploration assigns to: one that suits a common or rare
\* animal, one that does not, and a key HabitatConfig does not have
HabitatChoices == {"forest", "mystic", "unknown"}

\* data-action "assign-habitat": handleAssignHabitat
AssignHabitat ==
    /\ ~GS.isGameOver
    /\ \E animalId \in 1..idSeq, habitatKey \in HabitatChoices :
          Played(assignToHabitat(GS, animalId, habitatKey))
    /\ UNCHANGED <<idSeq, arrivals, loop>>

\* handleCancelClinic(animalId): DiseaseSystem.cancelClinicById is not
\* defined, so the handler warns and returns
handleCancelClinic(gs, animalId) == gs

\* Click on a cancel-clinic button: setupClinicHandlers, handleCancelClinic.
\* The click counts against MaxOps whatever it does.
CancelClinic ==
    /\ ops < MaxOps
    /\ \E animalId \in 1..idSeq : GS' = handleCancelClinic(GS, animalId)
    /\ ops' = ops + 1
    /\ UNCHANGED <<now, idSeq, ticks, bathLog, arrivals, loop>>

\* Click on the prestige button, which Render disables while the game is
\* over or canPrestige() is false: setupPrestigeHandlers, doPrestige
Prestige ==
    /\ ~GS.isGameOver
    /\ canPrestige(GS)
    /\ Played(doPrestige(GS))
    /\ UNCHANGED <<idSeq, arrivals, loop>>

\* Click on the restart button, which Render shows only while the game is
\* over: setupGameOverHandlers, restartGame, GameMain.restart
Restart ==
    /\ GS.isGameOver
    /\ Played(restartGame(GS))
    /\ loop' = restartGameLoop(loop)
    /\ UNCHANGED <<idSeq, arrivals>>

\* window.LoseSystem.tick(), the exported evaluator; gameTick does not call it
LoseCheck ==
    /\ GS' = LoseTick(GS)
    /\ UNCHANGED <<now, idSeq, ticks, ops, bathLog, arrivals, loop>>

Next ==
    \/ GameTick
    \/ BuyEgg
    \/ Feed
    \/ Clean
    \/ Sell
    \/ SendToClinic
    \/ AssignHabitat
    \/ CancelClinic
    \/ Prestige
    \/ Restart
    \/ LoseCheck

Spec == Init /\ [][Next]_vars

\* Shape of the state
TypeOK ==
    /\ GS.coins \in Int
    /\ GS.isGameOver \in BOOLEAN
    /\ now \in Nat
    /\ idSeq \in Nat
    /\ ticks \in 0..MaxTicks
    /\ ops \in 0..MaxOps

(***************************************************************************)
(* C1.  Terminal freeze: once isGameOver is true, a game tick changes      *)
(* neither the coin balance, nor the animal collection, nor the egg        *)
(* collection, nor gameOverReason.  gameTick never reads isGameOver, so    *)
(* this fails: TLC finds a tick after game over that pays income.          *)
(***************************************************************************)
C1_TickFrozenAfterGameOver ==
    [][(GS.isGameOver /\ GameTick) =>
          /\ GS'.coins = GS.coins
          /\ GS'.animals = GS.animals
          /\ GS'.eggs = GS.eggs
          /\ GS'.gameOverReason = GS.gameOverReason]_vars

(***************************************************************************)
(* C2.  Income gating: in the economy phase of every tick, an animal with  *)
(* hunger 0, or cleanliness 0, or sick, or occupying the bath's active     *)
(* slot adds 0 to the income total.  The economy phase is the last phase   *)
(* of the tick, so the animals and the bath slot it reads are those of the *)
(* state the tick leaves.  canEarn has no bath test, so this fails: TLC    *)
(* finds a tick in which the animal in the bath earns its income.          *)
(***************************************************************************)
\* The animals of gs that the statement says earn nothing
GatedOut(gs, a) ==
    \/ a.hunger = 0
    \/ a.cleanliness = 0
    \/ a.healthStatus = "sick"
    \/ (gs.currentBath # NoSlot /\ gs.currentBath.id = a.id)

C2_GatedAnimalsEarnNothing ==
    [][GameTick =>
          GS'.incomePerSecond =
              SumIncome(SelectSeq(GS'.animals, LAMBDA a : ~GatedOut(GS', a)), 1)]_vars

(***************************************************************************)
(* The bath house on its own: three housed animals are sent to the bath    *)
(* in some order while the bath is empty; from then on the game ticks and  *)
(* the player may sell animals.                                            *)
(***************************************************************************)
MaxBathTicks == 24

\* The orders in which the three animals can arrive
BathOrders == {q \in [1..3 -> 1..3] : \A i, j \in 1..3 : q[i] = q[j] => i = j}

\* sendToBathById for the three animals, in the order q
Enqueued(gs, q) ==
    sendToBathById(sendToBathById(sendToBathById(gs, q[1]), q[2]), q[3])

\* The bath house is explored without random events, which never read or
\* write the queue or the slot
BathRolls == {NoEvent}

InitBath ==
    /\ \E q \in BathOrders, housed \in {ThreeHoused(35)} :
          /\ GS = Enqueued(housed, q)
          /\ arrivals = q
    /\ loop = LoopAtLoad
    /\ now = StartTime + 35 * TICK_MS
    /\ idSeq = 3
    /\ ticks = 0
    /\ ops = 0
    /\ bathLog = << >>

BathTick == Tick(MaxBathTicks, BathRolls)

NextBath ==
    \/ BathTick
    \/ Sell

SpecBath == InitBath /\ [][NextBath]_vars

\* Where an id stands in the order of arrival
Arrival(id) == CHOOSE p \in 1..Len(arrivals) : arrivals[p] = id

(***************************************************************************)
(* C3.  Bath FIFO: after enqueue(A), enqueue(B), enqueue(C) into an empty  *)
(* bath queue the baths complete in the order of arrival; every bath       *)
(* lasts its full duration, and a bath starts only in a step after the     *)
(* one that completed the bath before it; no later arrival completes       *)
(* before an earlier one that is still owned.                              *)
(***************************************************************************)
C3_BathsCompleteInArrivalOrder ==
    /\ \A k \in 1..Len(bathLog) :
          bathLog[k].at - bathLog[k].start >= BATH_DURATION_MS
    /\ \A k \in 1..(Len(bathLog) - 1) :
          /\ bathLog[k + 1].start >= bathLog[k].at + TICK_MS
          /\ Arrival(bathLog[k].id) < Arrival(bathLog[k + 1].id)
    /\ \A k \in 1..Len(bathLog) : \A p \in 1..(Arrival(bathLog[k].id) - 1) :
          \/ \E j \in 1..(k - 1) : bathLog[j].id = arrivals[p]
          \/ arrivals[p] \notin AnimalIds(GS)

\* All three baths have completed and nothing was sold
C3_ThreeBathsDone ==
    /\ Len(bathLog) = 3
    /\ Len(GS.animals) = 3
    /\ arrivals # <<1, 2, 3>>

\* A stat of an animal lies in the source's 0..100 range
InRange(stat) == stat \in 0..(100 * Pt)

(***************************************************************************)
(* C4.  Through all ticks, player operations and random events, every      *)
(* owned animal's hunger, cleanliness and happiness stay within [0, 100].  *)
(***************************************************************************)
C4_StatsWithinRange ==
    \A i \in 1..Len(GS.animals) :
        /\ InRange(GS.animals[i].hunger)
        /\ InRange(GS.animals[i].cleanliness)
        /\ InRange(GS.animals[i].happiness)

\* A tick has run and left an animal's happiness at a limit of the range,
\* where the tick's adjustment would otherwise have carried it across
C4_StatAtLimitAfterTick ==
    /\ ticks > 0
    /\ \E i \in 1..Len(GS.animals) :
          \/ GS.animals[i].happiness = HAPPINESS_MAX * Pt
          \/ GS.animals[i].happiness = HAPPINESS_MIN * Pt

\* The places in the incubator of the eggs whose time is up at time t
DueAt(eggs, t) == {i \in 1..Len(eggs) : eggs[i].hatchTime > 0 /\ t >= eggs[i].start + eggs[i].hatchTime}

(***************************************************************************)
(* C5.  An egg with duration D that is stepped with now >= start + D is    *)
(* removed from the incubating collection and exactly one animal is        *)
(* appended to the animal collection for it; the other eggs stay and the   *)
(* animals owned before keep their places.                                 *)
(***************************************************************************)
C5_DueEggHatchesOnce ==
    [][GameTick =>
          LET due == DueAt(GS.eggs, now')
              owned == Len(GS.animals)
          IN /\ GS'.eggs = SelectSeq(GS.eggs, LAMBDA e : \A i \in due : GS.eggs[i] # e)
             /\ Len(GS'.animals) = owned + Cardinality(due)
             /\ \A k \in 1..owned : GS'.animals[k].id = GS.animals[k].id
             /\ \A i \in due :
                   Cardinality({k \in (owned + 1)..Len(GS'.animals) :
                                   GS'.animals[k].id = GS.eggs[i].id}) = 1]_vars

\* Both eggs bought at load time have hatched in the tick their time was up
C5_TwoHatchedTogether ==
    /\ ticks = 1
    /\ now = StartTime + EggData["common"].hatchTime
    /\ GS.eggs = << >>
    /\ AnimalIds(GS) = {1, 2}

\* What sendToClinicById charged for the animal with this id
ClinicCostPaid(gs, id) == gs.animals[AnimalIndex(gs, id)].income * CLINIC_COST_MULTIPLIER

(***************************************************************************)
(* C6.  Cancelling a queued clinic entry removes it from the waiting       *)
(* queue and refunds the cost paid when it was queued; cancelling an id    *)
(* that is not queued changes nothing.  DiseaseSystem exports no           *)
(* cancelClinicById, so handleCancelClinic returns at its first test and   *)
(* this fails: TLC finds a cancel of a queued animal that leaves the       *)
(* queue and the coins as they were.                                       *)
(***************************************************************************)
C6_CancelRefundsQueuedEntry ==
    [][CancelClinic =>
          \A animalId \in 1..idSeq :
              GS' = handleCancelClinic(GS, animalId) =>
                  IF animalId \in SeqToSet(GS.clinicQueue)
                  THEN /\ animalId \notin SeqToSet(GS'.clinicQueue)
                       /\ Len(GS'.clinicQueue) = Len(GS.clinicQueue) - 1
                       /\ GS'.coins = GS.coins + ClinicCostPaid(GS, animalId)
                  ELSE GS' = GS]_vars

(***************************************************************************)
(* C7.  After a successful prestige the animals, eggs, bathQueue and       *)
(* clinicQueue are empty, currentBath and currentPatient are null, the     *)
(* coins are STARTING_COINS_AFTER_PRESTIGE, prestige.count has grown by    *)
(* exactly 1 and modifiers.globalPrestigeMultiplier by exactly             *)
(* PRESTIGE_REWARD_INCOME_BOOST_PER_PRESTIGE.                              *)
(***************************************************************************)
C7_PrestigeResetsRun ==
    [][Prestige =>
          /\ GS'.animals = << >>
          /\ GS'.eggs = << >>
          /\ GS'.bathQueue = << >>
          /\ GS'.clinicQueue = << >>
          /\ GS'.currentBath = NoSlot
          /\ GS'.currentPatient = NoSlot
          /\ GS'.coins = STARTING_COINS_AFTER_PRESTIGE
          /\ GS'.prestige.count = GS.prestige.count + 1
          /\ GS'.modifiers.globalPrestigeMultiplier =
                GS.modifiers.globalPrestigeMultiplier
                    + PRESTIGE_REWARD_INCOME_BOOST_PER_PRESTIGE]_vars

\* A prestige has been done
C7_Prestiged ==
    /\ GS.prestige.count = 1
    /\ GS.animals = << >>
    /\ Len(GS.leaderboard) = 1

\* The lose conditions that hold in a state, by their reason
LoseReasons(gs) ==
    {r \in {"bankrupt", "no_animals", "all_unhappy"} :
        \/ r = "bankrupt" /\ gs.coins < 0
        \/ r = "no_animals" /\ gs.animals = << >> /\ gs.eggs = << >>
                            /\ \A k \in EggTypeKeys : gs.coins < EggData[k].price
        \/ r = "all_unhappy" /\ gs.animals # << >>
                             /\ \A i \in 1..Len(gs.animals) : gs.animals[i].happiness <= 0}

(***************************************************************************)
(* C8.  The lose evaluator runs in every step, after the economy: when a   *)
(* lose condition holds in the state a game tick leaves, that state is     *)
(* terminal, and if the tick made it terminal the reason is one of the     *)
(* conditions that hold.  gameTick never calls LoseSystem.tick, so this    *)
(* fails: TLC finds a tick that ends with every animal at happiness 0 and  *)
(* isGameOver still false.                                                 *)
(***************************************************************************)
C8_TickEndsTerminalWhenLost ==
    [][GameTick =>
          (LoseReasons(GS') # {} =>
              /\ GS'.isGameOver
              /\ ~GS.isGameOver => GS'.gameOverReason \in LoseReasons(GS'))]_vars

(***************************************************************************)
(* The lose evaluator on its own: LoseSystem.tick() applied to drawn       *)
(* GameStates, with game ticks in between.                                 *)
(***************************************************************************)
MaxLoseTicks == 2

\* Coins below zero, zero, one short of the cheapest egg, its price, and more
LoseCoins == {0 - 5, 0, getCheapestEggPrice - 1, getCheapestEggPrice, 50}

\* A common animal as hatched, at a given happiness
Pet(id, happiness) ==
    [NewAnimal(id, AnimalPools["common"][1], "common") EXCEPT !.happiness = happiness]

\* No animal; one or two animals, unhappy, barely happy or content
LoseAnimals ==
    { << >>,
      << Pet(1, 0) >>,
      << Pet(1, BASE_HAPPINESS * Pt) >>,
      << Pet(1, 0), Pet(2, 0) >>,
      << Pet(1, 0), Pet(2, 5) >> }

\* An empty incubator, or one common egg just bought
LoseEggs ==
    { << >>,
      << [id |-> 3, type |-> "common", start |-> StartTime,
          hatchTime |-> EggData["common"].hatchTime] >> }

\* Not terminal, or terminal for one of the two reasons of lower priority
LoseFlags ==
    { [isGameOver |-> FALSE, gameOverReason |-> "none"],
      [isGameOver |-> TRUE, gameOverReason |-> "no_animals"],
      [isGameOver |-> TRUE, gameOverReason |-> "all_unhappy"] }

InitLose ==
    /\ \E c \in LoseCoins, a \in LoseAnimals, e \in LoseEggs, f \in LoseFlags :
          GS = [InitialGameState EXCEPT !.coins = c, !.animals = a, !.eggs = e,
                                        !.isGameOver = f.isGameOver,
                                        !.gameOverReason = f.gameOverReason]
    /\ now = StartTime
    /\ idSeq = 3
    /\ ticks = 0
    /\ ops = 0
    /\ bathLog = << >>
    /\ arrivals = << >>
    /\ loop = LoopAtLoad

LoseSpecTick == Tick(MaxLoseTicks, {NoEvent})

NextLose ==
    \/ LoseCheck
    \/ LoseSpecTick

SpecLose == InitLose /\ [][NextLose]_vars

\* The state with the terminal flag set for a reason
Terminal(gs, reason) == [gs EXCEPT !.isGameOver = TRUE, !.gameOverReason = reason]

(***************************************************************************)
(* C9.  The lose evaluator does nothing when the state is terminal;        *)
(* otherwise the first of bankrupt (coins < 0), no_animals (no animals,    *)
(* no eggs, coins below the cheapest egg price), all_unhappy (at least     *)
(* one animal, every happiness <= 0) that holds sets the flag and the      *)
(* reason and nothing else; no step overwrites a reason once it is set.    *)
(***************************************************************************)
C9_FirstLoseConditionWins ==
    [][/\ LoseCheck =>
             IF GS.isGameOver THEN GS' = GS
             ELSE IF "bankrupt" \in LoseReasons(GS) THEN GS' = Terminal(GS, "bankrupt")
             ELSE IF "no_animals" \in LoseReasons(GS) THEN GS' = Terminal(GS, "no_animals")
             ELSE IF "all_unhappy" \in LoseReasons(GS) THEN GS' = Terminal(GS, "all_unhappy")
             ELSE GS' = GS
       /\ GS.isGameOver => GS'.isGameOver /\ GS'.gameOverReason = GS.gameOverReason]_vars

\* The evaluator has reported bankrupt in a state where no_animals holds too
C9_BankruptWinsOverNoAnimals ==
    /\ GS.isGameOver
    /\ GS.gameOverReason = "bankrupt"
    /\ {"bankrupt", "no_animals"} \subseteq LoseReasons(GS)

(***************************************************************************)
(* C10.  Each game tick runs hatching, bath queue, sickness and clinic,    *)
(* habitat effects, happiness, events, economy and the lose check, in      *)
(* this order, each on the state the one before it left.  gameTick stops   *)
(* after the economy (see C8), so this fails: TLC finds a tick whose       *)
(* result is not what the eight phases give.                               *)
(***************************************************************************)
C10_EightPhasesInOrder ==
    [][GameTick =>
          \E pick \in HatchPicks(GS, now'), roll \in EventRolls :
              GS' = LoseTick(EconomyTick(EventsTick(HappinessTick(HabitatTick(
                        DiseaseTick(CleaningTick(HatchingTick(GS, now', pick), now'),
                                    now'))), now', roll)))]_vars

(***************************************************************************)
(* What the player operations return: true on the one path of each that    *)
(* reaches its last line, false on every early return                      *)
(***************************************************************************)
buyEggReturns(gs, typeKey) ==
    ~NoEggDef(typeKey) /\ gs.coins >= EggDef(typeKey).price

feedAnimalByIdReturns(gs, animalId) ==
    LET i == AnimalIndex(gs, animalId) IN
    /\ i # 0
    /\ ~(gs.animals[i].income * FEED_COST_MULTIPLIER > 0
            /\ gs.coins < gs.animals[i].income * FEED_COST_MULTIPLIER)

sendToBathByIdReturns(gs, animalId) ==
    LET i == AnimalIndex(gs, animalId) IN
    /\ i # 0
    /\ animalId \notin SeqToSet(gs.bathQueue)
    /\ ~(gs.currentBath # NoSlot /\ gs.currentBath.id = animalId)
    /\ ~(gs.animals[i].income * CLEAN_COST_MULTIPLIER > 0
            /\ gs.coins < gs.animals[i].income * CLEAN_COST_MULTIPLIER)

sendToClinicByIdReturns(gs, animalId) ==
    LET i == AnimalIndex(gs, animalId) IN
    /\ i # 0
    /\ gs.animals[i].healthStatus = "sick"
    /\ animalId \notin SeqToSet(gs.clinicQueue)
    /\ ~(gs.currentPatient # NoSlot /\ gs.currentPatient.id = animalId)
    /\ ~(gs.animals[i].income * CLINIC_COST_MULTIPLIER > 0
            /\ gs.coins < gs.animals[i].income * CLINIC_COST_MULTIPLIER)

sellAnimalByIdReturns(gs, animalId) == AnimalIndex(gs, animalId) # 0

assignToHabitatReturns(gs, animalId, habitatKey) ==
    /\ AnimalIndex(gs, animalId) # 0
    /\ habitatKey \in HabitatKeys
    /\ Len(ExistingIds(gs, ensureHabitatState(gs).habitats[habitatKey].animalIds))
          < HabitatCapacity(ensureHabitatState(gs), habitatKey)

\* doPrestige().success
doPrestigeReturns(gs) == canPrestige(gs)

\* The part of the state a failed operation must leave alone
RunState(gs) ==
    << gs.coins, gs.animals, gs.eggs, gs.bathQueue, gs.clinicQueue,
       gs.currentBath, gs.currentPatient >>

(***************************************************************************)
(* C11.  Every mutating player operation (buyEgg, feedAnimalById,          *)
(* sendToBathById, sendToClinicById, sellAnimalById, assignToHabitat,      *)
(* doPrestige) returns success or failure; when it returns failure the     *)
(* coins, the animals, the eggs, both queues and both active slots are     *)
(* as they were.  Stated for every operation and every input in every      *)
(* reachable state.                                                        *)
(***************************************************************************)
C11_FailureChangesNothing ==
    /\ \A typeKey \in ShopInputs :
          ~buyEggReturns(GS, typeKey) =>
              RunState(buyEgg(GS, typeKey, idSeq + 1, now)) = RunState(GS)
    /\ \A animalId \in 1..idSeq :
          /\ ~feedAnimalByIdReturns(GS, animalId) =>
                RunState(feedAnimalById(GS, animalId)) = RunState(GS)
          /\ ~sendToBathByIdReturns(GS, animalId) =>
                RunState(sendToBathById(GS, animalId)) = RunState(GS)
          /\ ~sendToClinicByIdReturns(GS, animalId) =>
                RunState(sendToClinicById(GS, animalId)) = RunState(GS)
          /\ ~sellAnimalByIdReturns(GS, animalId) =>
                RunState(sellAnimalById(GS, animalId)) = RunState(GS)
          /\ \A habitatKey \in HabitatChoices :
                ~assignToHabitatReturns(GS, animalId, habitatKey) =>
                    RunState(assignToHabitat(GS, animalId, habitatKey)) = RunState(GS)
    /\ ~doPrestigeReturns(GS) => RunState(doPrestige(GS)) = RunState(GS)

\* An owned animal waits for its bath, so that sending it again fails, and
\* the coins do not reach the dearest egg, so that buying it fails
C11_OperationsFail ==
    /\ \E animalId \in AnimalIds(GS) :
          /\ animalId \in SeqToSet(GS.bathQueue)
          /\ ~sendToBathByIdReturns(GS, animalId)
    /\ ~buyEggReturns(GS, "mystic")
    /\ ~doPrestigeReturns(GS)

(***************************************************************************)
(* The game loop under GameMain.start(), GameMain.stop() and               *)
(* GameMain.restart(), called in any order while the game ticks            *)
(***************************************************************************)
MaxLoopCalls == 4

\* Assignments to a habitat in one run of SpecHabitat
MaxHabitatOps == 5

\* Game ticks in one run of SpecHabitat
MaxHabitatTicks == 1

\* Game ticks in one run of SpecEvents
MaxEventTicks == 22

\* Game ticks in one run of SpecThrowing
MaxThrowingTicks == 2

\* How many ticks after its time an operation is found to complete
MaxLateTicks == 5

\* Game ticks in one run of SpecNeglect
MaxNeglectTicks == 21

\* A call of the debug API counts against MaxLoopCalls whatever it does
LoopCall(l) ==
    /\ ops < MaxLoopCalls
    /\ loop' = l
    /\ ops' = ops + 1
    /\ UNCHANGED <<GS, now, idSeq, ticks, bathLog, arrivals>>

\* window.GameMain.start()
StartLoop == LoopCall(startGameLoop(loop))

\* window.GameMain.stop()
StopLoop == LoopCall(stopGameLoop(loop))

\* window.GameMain.restart()
RestartLoop == LoopCall(restartGameLoop(loop))

NextLoop ==
    \/ StartLoop
    \/ StopLoop
    \/ RestartLoop
    \/ GameTick

SpecLoop == Init /\ [][NextLoop]_vars

\* The loop runs: the handle is that of the one active interval timer
Running(l) == l.gameLoopHandle # NoHandle /\ l.intervals = {l.gameLoopHandle}

\* The loop does not run: no handle and no active interval timer
Stopped(l) == l.gameLoopHandle = NoHandle /\ l.intervals = {}

(***************************************************************************)
(* C12.  Scheduler control is idempotent: start while running and stop     *)
(* while not running change nothing; after any sequence of start, stop     *)
(* and restart calls at most one interval timer is active (so gameTick     *)
(* fires at most once per period), and it is the one the handle names;     *)
(* after restart the loop runs.                                            *)
(***************************************************************************)
C12_OneTimerAtMost ==
    [][/\ Cardinality(loop'.intervals) <= 1
       /\ Running(loop') \/ Stopped(loop')
       /\ (StartLoop /\ Running(loop)) => loop' = loop
       /\ (StopLoop /\ Stopped(loop)) => loop' = loop
       /\ StartLoop => Running(loop')
       /\ StopLoop => Stopped(loop')
       /\ RestartLoop => Running(loop')]_vars

\* Three calls of which only one set a timer, and the game has ticked since
C12_CallsWithoutEffect ==
    /\ ops = 3
    /\ loop.issued = 2
    /\ Running(loop)
    /\ ticks > 0

\* The places of one animal before and after a step
SameAnimal(i, j) ==
    /\ i \in 1..Len(GS.animals)
    /\ j \in 1..Len(GS'.animals)
    /\ GS.animals[i].id = GS'.animals[j].id

\* The step is a game tick that completes the clinic treatment of this id
TreatmentCompletes(id) ==
    /\ now' # now
    /\ GS.currentPatient # NoSlot
    /\ GS.currentPatient.id = id
    /\ now' - GS.currentPatient.start >= GS.currentPatient.durationMs
    /\ GS'.currentPatient = NoSlot

(***************************************************************************)
(* C13.  An animal's health changes only from healthy to sick, in a game   *)
(* tick that brings its neglect counter to NEGLECT_TICKS_BEFORE_SICK, and  *)
(* from sick to healthy, in a game tick that completes the clinic          *)
(* treatment of that animal; no player operation and no other tick         *)
(* changes it.                                                             *)
(***************************************************************************)
C13_HealthTransitions ==
    [][\A i \in 1..Len(GS.animals), j \in 1..Len(GS'.animals) :
          SameAnimal(i, j) =>
              /\ GS'.animals[j].healthStatus \in {"healthy", "sick"}
              /\ (GS.animals[i].healthStatus = "healthy"
                    /\ GS'.animals[j].healthStatus = "sick") =>
                        /\ now' # now
                        /\ GS.animals[i].neglectTicks = NEGLECT_TICKS_BEFORE_SICK - 1
                        /\ GS'.animals[j].neglectTicks = NEGLECT_TICKS_BEFORE_SICK
              /\ (GS.animals[i].healthStatus = "sick"
                    /\ GS'.animals[j].healthStatus = "healthy") =>
                        TreatmentCompletes(GS.animals[i].id)]_vars

\* A treated animal is healthy again, its counter at 0, and as hungry and
\* dirty as it was
C13_CuredByClinic ==
    /\ ticks > 0
    /\ GS.currentPatient = NoSlot
    /\ \E i \in 1..Len(GS.animals) :
          /\ GS.animals[i].healthStatus = "healthy"
          /\ GS.animals[i].neglectTicks = 0
          /\ GS.animals[i].hunger < NEGLECT_THRESHOLD_HUNGER * Pt
          /\ GS.animals[i].cleanliness < NEGLECT_THRESHOLD_CLEANLINESS * Pt

(***************************************************************************)
(* Specification SpecNeglect: one animal left hungry and dirty.  It starts *)
(* at the last tick before checkAndUpdateSickness first finds the animal   *)
(* neglected: healthy, counter 0, hunger and cleanliness below 30.         *)
(***************************************************************************)
InitNeglect ==
    /\ \E gs \in {OneNeglected(147)} : GS = gs
    /\ now = StartTime + 147 * TICK_MS
    /\ idSeq = 1
    /\ ticks = 0
    /\ ops = 0
    /\ bathLog = << >>
    /\ arrivals = << >>
    /\ loop = LoopAtLoad

NeglectTick == Tick(MaxNeglectTicks, EventRolls)

NextNeglect == NeglectTick

SpecNeglect == InitNeglect /\ [][NextNeglect]_vars

\* hunger < NEGLECT_THRESHOLD_HUNGER && cleanliness < NEGLECT_THRESHOLD_CLEANLINESS
Neglected(a) ==
    /\ a.hunger < NEGLECT_THRESHOLD_HUNGER * Pt
    /\ a.cleanliness < NEGLECT_THRESHOLD_CLEANLINESS * Pt

(***************************************************************************)
(* C14.  A healthy animal with neglect counter 0 that is found neglected   *)
(* (hunger < 30 and cleanliness < 30) on every following step is still     *)
(* healthy after each of the first 19 steps, its counter equal to the      *)
(* number of steps, and is sick after the 20th.                            *)
(***************************************************************************)
C14_SickAtTwentiethStep ==
    /\ Len(GS.animals) = 1
    /\ Neglected(GS.animals[1])
    /\ GS.animals[1].neglectTicks = Min(ticks, NEGLECT_TICKS_BEFORE_SICK)
    /\ GS.animals[1].healthStatus =
          IF ticks >= NEGLECT_TICKS_BEFORE_SICK THEN "sick" ELSE "healthy"

\* The 20th neglected step has just made the animal sick
C14_TwentiethStepTaken ==
    /\ ticks = NEGLECT_TICKS_BEFORE_SICK
    /\ GS.animals[1].healthStatus = "sick"
    /\ GS.animals[1].neglectTicks = NEGLECT_TICKS_BEFORE_SICK

\* The ids a service holds, waiting or active, with their multiplicity
Held(queue, slot) == IF slot = NoSlot THEN queue ELSE << slot.id >> \o queue

NoRepeat(q) == \A i, j \in 1..Len(q) : q[i] = q[j] => i = j

(***************************************************************************)
(* C15.  In every reachable state, for the bath house and for the clinic,  *)
(* an animal id occurs at most once in the waiting queue and the active    *)
(* slot taken together, and the active slot holds one occupant or none.    *)
(***************************************************************************)
C15_OncePerService ==
    /\ NoRepeat(Held(GS.bathQueue, GS.currentBath))
    /\ NoRepeat(Held(GS.clinicQueue, GS.currentPatient))
    /\ GS.currentBath # NoSlot => GS.currentBath.id \in 1..idSeq
    /\ GS.currentPatient # NoSlot => GS.currentPatient.id \in 1..idSeq

\* One animal is in the bath while another waits for it
C15_BathBusyAndQueue ==
    /\ GS.currentBath # NoSlot
    /\ Len(GS.bathQueue) > 0
    /\ ops = MaxOps

\* The ids in the bath house and in the clinic, waiting or active
InBathHouse(gs) ==
    SeqToSet(gs.bathQueue) \cup (IF gs.currentBath = NoSlot THEN {} ELSE {gs.currentBath.id})

InClinic(gs) ==
    SeqToSet(gs.clinicQueue)
        \cup (IF gs.currentPatient = NoSlot THEN {} ELSE {gs.currentPatient.id})

(***************************************************************************)
(* C16.  In every reachable state no animal is in the bath house (waiting  *)
(* or active) and in the clinic (waiting or active) at the same time.      *)
(* sendToBathById does not look at the clinic and sendToClinicById does    *)
(* not look at the bath house, so this fails: TLC finds a sick animal      *)
(* sent to the bath and then to the clinic.                                *)
(***************************************************************************)
C16_NeverBathAndClinic == InBathHouse(GS) \cap InClinic(GS) = {}

(***************************************************************************)
(* C17.  A successful sell removes the animal, leaves its id in neither    *)
(* the bath queue, the bath slot, the clinic queue nor the clinic slot,    *)
(* and pays the sale value plus the clinic cost paid for a waiting clinic  *)
(* entry.  sellAnimalById cleans the bath house only and refunds nothing,  *)
(* so this fails: TLC finds the sale of an animal that is in the clinic.   *)
(***************************************************************************)
C17_SellCancelsServices ==
    [][Sell =>
          \A animalId \in AnimalIds(GS) :
              GS' = sellAnimalById(GS, animalId) =>
                  /\ animalId \notin AnimalIds(GS')
                  /\ animalId \notin InBathHouse(GS')
                  /\ animalId \notin InClinic(GS')
                  /\ GS'.coins = GS.coins
                        + GS.animals[AnimalIndex(GS, animalId)].income * SELL_MULTIPLIER
                        + (IF animalId \in SeqToSet(GS.clinicQueue)
                           THEN ClinicCostPaid(GS, animalId) ELSE 0)]_vars

\* The collections and slots of one run
RunCleared(gs) ==
    /\ gs.animals = << >>
    /\ gs.eggs = << >>
    /\ gs.bathQueue = << >>
    /\ gs.clinicQueue = << >>
    /\ gs.currentBath = NoSlot
    /\ gs.currentPatient = NoSlot
    /\ \A k \in DOMAIN gs.habitats : gs.habitats[k].animalIds = << >>

\* What outlives a run
Permanent(gs) ==
    << gs.prestige.count, gs.prestige.totalPrestigePoints,
       gs.modifiers.globalPrestigeMultiplier, gs.leaderboard >>

(***************************************************************************)
(* C18.  A restart after game over and a prestige both leave the run's     *)
(* collections and slots empty, and neither lowers prestige.count,         *)
(* totalPrestigePoints or modifiers.globalPrestigeMultiplier nor drops an  *)
(* entry of the leaderboard; a restart leaves the four exactly as they     *)
(* were and clears isGameOver and gameOverReason.                          *)
(***************************************************************************)
C18_ResetsKeepPermanentProgress ==
    [][/\ (Restart \/ Prestige) =>
              /\ RunCleared(GS')
              /\ GS'.prestige.count >= GS.prestige.count
              /\ GS'.prestige.totalPrestigePoints >= GS.prestige.totalPrestigePoints
              /\ GS'.modifiers.globalPrestigeMultiplier
                    >= GS.modifiers.globalPrestigeMultiplier
              /\ Len(GS'.leaderboard) >= Len(GS.leaderboard)
              /\ SubSeq(GS'.leaderboard, 1, Len(GS.leaderboard)) = GS.leaderboard
       /\ Restart =>
              /\ Permanent(GS') = Permanent(GS)
              /\ ~GS'.isGameOver
              /\ GS'.gameOverReason = "none"]_vars

\* A lost run that followed a prestige has been restarted
C18_RestartedAfterPrestige ==
    /\ GS.prestige.count = 1
    /\ GS.modifiers.globalPrestigeMultiplier
          > InitialGameState.modifiers.globalPrestigeMultiplier
    /\ Len(GS.leaderboard) = 1
    /\ RunCleared(GS)
    /\ GS.coins = 100
    /\ ~GS.isGameOver
    /\ loop.issued = 2

\* doPrestige().reason
doPrestigeReason(gs) ==
    IF ~canPrestige(gs) THEN "Prestige requirements not met yet." ELSE "none"

(***************************************************************************)
(* C19.  In every reachable state canPrestige() is true exactly when the   *)
(* coins are at least MIN_COINS_FOR_PRESTIGE and the animals at least      *)
(* MIN_ANIMALS_FOR_PRESTIGE; when it is false, doPrestige() fails with a   *)
(* reason and leaves the run state, prestige.count, the multiplier and     *)
(* the leaderboard as they were.                                           *)
(***************************************************************************)
C19_PrestigeOnlyAboveThresholds ==
    /\ canPrestige(GS) <=> /\ GS.coins >= MIN_COINS_FOR_PRESTIGE
                           /\ Len(GS.animals) >= MIN_ANIMALS_FOR_PRESTIGE
    /\ doPrestigeReturns(GS) <=> canPrestige(GS)
    /\ ~canPrestige(GS) =>
          /\ doPrestigeReason(GS) # "none"
          /\ RunState(doPrestige(GS)) = RunState(GS)
          /\ Permanent(doPrestige(GS)) = Permanent(GS)
          /\ doPrestige(GS) = GS

\* Coins enough for a prestige, one animal too few after a sale
C19_OneAnimalShort ==
    /\ GS.coins >= MIN_COINS_FOR_PRESTIGE
    /\ Len(GS.animals) = MIN_ANIMALS_FOR_PRESTIGE - 1
    /\ ~doPrestigeReturns(GS)
    /\ ops > 0

(***************************************************************************)
(* Specification SpecShop: the egg shop called directly, with any of       *)
(* ShopInputs, while the game ticks                                        *)
(***************************************************************************)
BuyEggCall == BuyEggWith(ShopInputs)

NextShop == BuyEggCall \/ GameTick

SpecShop == Init /\ [][NextShop]_vars

(***************************************************************************)
(* C20.  buyEgg(typeKey) returns true exactly when typeKey is one of the   *)
(* configured egg types and the coins are at least its price; it then      *)
(* takes exactly the price and appends one egg, with start = now and the   *)
(* type's hatchTime, after the eggs already incubating, and leaves these   *)
(* and the animals as they were; otherwise it changes nothing.  The        *)
(* lookup window.EggData[typeKey] also finds the keys an object literal    *)
(* inherits, so this fails: TLC finds a purchase of the type "constructor" *)
(* that succeeds, costs nothing and appends an egg with hatchTime 0.       *)
(***************************************************************************)
C20_BuyEggValidatesTypeAndPrice ==
    [][BuyEggCall =>
          \A typeKey \in ShopInputs :
              GS' = buyEgg(GS, typeKey, idSeq + 1, now) =>
                  /\ buyEggReturns(GS, typeKey) <=>
                        /\ typeKey \in EggTypeKeys
                        /\ GS.coins >= EggData[typeKey].price
                  /\ IF typeKey \in EggTypeKeys /\ GS.coins >= EggData[typeKey].price
                     THEN /\ GS'.coins = GS.coins - EggData[typeKey].price
                          /\ Len(GS'.eggs) = Len(GS.eggs) + 1
                          /\ SubSeq(GS'.eggs, 1, Len(GS.eggs)) = GS.eggs
                          /\ GS'.eggs[Len(GS'.eggs)].start = now
                          /\ GS'.eggs[Len(GS'.eggs)].hatchTime = EggData[typeKey].hatchTime
                          /\ GS'.animals = GS.animals
                     ELSE GS' = GS]_vars

\* The clinic costs GameState holds by animal id.  sendToClinicById takes
\* the coins and pushes the id; it stores the cost nowhere, and no other
\* code writes one.
clinicQueueCosts(gs) == << >>

(***************************************************************************)
(* C21.  sendToClinicById fails, changing nothing, when the animal is not  *)
(* found, is not sick, is already in clinicQueue, is already the current   *)
(* patient, or the coins are below income x CLINIC_COST_MULTIPLIER; on     *)
(* success it takes exactly that cost, records it against the animal's id  *)
(* and appends the id at the tail of clinicQueue.  The code records no     *)
(* cost, so this fails: TLC finds a sick animal queued and charged with    *)
(* nothing recorded for its id.                                            *)
(***************************************************************************)
C21_ClinicEnqueueChargesAndRecords ==
    [][SendToClinic =>
          \A animalId \in 1..idSeq :
              GS' = sendToClinicById(GS, animalId) =>
                  IF sendToClinicByIdReturns(GS, animalId)
                  THEN /\ AnimalIndex(GS, animalId) # 0
                       /\ GS.animals[AnimalIndex(GS, animalId)].healthStatus = "sick"
                       /\ animalId \notin InClinic(GS)
                       /\ GS.coins >= ClinicCostPaid(GS, animalId)
                       /\ GS'.coins = GS.coins - ClinicCostPaid(GS, animalId)
                       /\ GS'.clinicQueue = Append(GS.clinicQueue, animalId)
                       /\ animalId \in DOMAIN clinicQueueCosts(GS')
                       /\ clinicQueueCosts(GS')[animalId] = ClinicCostPaid(GS, animalId)
                  ELSE /\ GS' = GS
                       /\ \/ AnimalIndex(GS, animalId) = 0
                          \/ GS.animals[AnimalIndex(GS, animalId)].healthStatus # "sick"
                          \/ animalId \in InClinic(GS)
                          \/ GS.coins < ClinicCostPaid(GS, animalId)]_vars

(***************************************************************************)
(* Specification SpecHabitat: four animals hatched from common eggs and    *)
(* not yet housed, moved between the mystic habitat (capacity 3), the      *)
(* forest and a habitat that does not exist, and sold, while the game      *)
(* ticks                                                                   *)
(***************************************************************************)
FourHatched ==
    CHOOSE out \in
        { Elapse(bought, StartTime, 7, 1, Rain) :
            bought \in {buyEgg(buyEgg(buyEgg(buyEgg(InitialGameState,
                            "common", 1, StartTime), "common", 2, StartTime),
                            "common", 3, StartTime), "common", 4, StartTime)} } : TRUE

InitHabitat ==
    /\ \E gs \in {FourHatched} : GS = gs
    /\ now = StartTime + 7 * TICK_MS
    /\ idSeq = 4
    /\ ticks = 0
    /\ ops = 0
    /\ bathLog = << >>
    /\ arrivals = << >>
    /\ loop = LoopAtLoad

\* handleAssignHabitat; a refused assignment counts against MaxHabitatOps too
HabitatMove ==
    /\ ops < MaxHabitatOps
    /\ \E animalId \in 1..idSeq, habitatKey \in HabitatChoices :
          GS' = assignToHabitat(GS, animalId, habitatKey)
    /\ ops' = ops + 1
    /\ UNCHANGED <<now, idSeq, ticks, bathLog, arrivals, loop>>

HabitatSpecTick == Tick(MaxHabitatTicks, {NoEvent})

NextHabitat == HabitatMove \/ Sell \/ HabitatSpecTick

SpecHabitat == InitHabitat /\ [][NextHabitat]_vars

\* The habitats whose animalIds hold this id, each as often as it holds it
Housings(gs, id) ==
    {<<k, n>> \in HabitatKeys \X (1..(Len(gs.animals) + MaxHabitatOps)) :
        n <= Len(gs.habitats[k].animalIds) /\ gs.habitats[k].animalIds[n] = id}

(***************************************************************************)
(* C22.  In every reachable state each habitat holds at most as many       *)
(* existing animals as its capacity, and the id of each animal is in the   *)
(* animalIds of at most one habitat, once: an assignment to another        *)
(* habitat takes the id out of the previous one.                           *)
(***************************************************************************)
C22_HabitatsWithinCapacity ==
    /\ \A k \in HabitatKeys :
          Len(ExistingIds(GS, GS.habitats[k].animalIds)) <= HabitatCapacity(GS, k)
    /\ \A id \in AnimalIds(GS) :
          /\ Cardinality(Housings(GS, id)) <= 1
          /\ \A h \in Housings(GS, id) : GS.animals[AnimalIndex(GS, id)].habitat = h[1]

\* The mystic habitat is full, and the animal that found no room is in the
\* forest
C22_MysticFull ==
    /\ Len(ExistingIds(GS, GS.habitats["mystic"].animalIds)) = HabitatCapacity(GS, "mystic")
    /\ Len(GS.animals) = 4
    /\ \E i \in 1..Len(GS.animals) : GS.animals[i].habitat = "forest"
    /\ ops = MaxHabitatOps

(***************************************************************************)
(* C23.  In the economy phase of a tick every earning animal contributes   *)
(* its base income times its happiness multiplier, its habitat multiplier, *)
(* the global prestige multiplier and the global event multiplier; the sum *)
(* of the contributions is added to the coins and stored as the            *)
(* income-per-step display value.  The multipliers of the model are in     *)
(* hundredths (the event multiplier is a whole number), so the product is  *)
(* compared in millionths.  EconomySystem.tick adds the base income        *)
(* alone, so this fails: TLC finds a tick in which a happy animal of base  *)
(* income 1 and happiness multiplier 1.1 adds 1 and not 1.1.               *)
(***************************************************************************)
\* The contribution the statement gives animal a, in millionths of a coin
MultipliedContribution(gs, a) ==
    IF canEarn(a)
    THEN a.income * a.happinessIncomeMultiplier * a.habitatBonusMultiplier
            * gs.modifiers.globalPrestigeMultiplier
            * gs.modifiers.incomeBoostMultiplier
    ELSE 0

RECURSIVE SumMultiplied(_, _)
SumMultiplied(gs, i) ==
    IF i > Len(gs.animals) THEN 0
    ELSE MultipliedContribution(gs, gs.animals[i]) + SumMultiplied(gs, i + 1)

C23_IncomeIsProductOfMultipliers ==
    [][GameTick =>
        \A pick \in HatchPicks(GS, now'), roll \in RollsDrawn(GS, now', EventRolls) :
            GS' = gameTick(GS, now', pick, roll) =>
                LET beforeEconomy ==
                        EventsTick(HappinessTick(HabitatTick(DiseaseTick(
                            CleaningTick(HatchingTick(GS, now', pick), now'), now'))),
                            now', roll)
                IN /\ (GS'.coins - beforeEconomy.coins) * Pt * Pt * Pt
                          = SumMultiplied(beforeEconomy, 1)
                   /\ GS'.incomePerSecond * Pt * Pt * Pt
                          = SumMultiplied(beforeEconomy, 1)]_vars


(***************************************************************************)
(* The events of a fresh game: ticks only, every roll that the cooldown    *)
(* allows is either no event, a visitor donation or a Double Tips Hour     *)
(***************************************************************************)
TipsRolls ==
    {roll \in EventRolls :
        \/ ~roll.fire
        \/ roll.id \in {"visitor_donation", "double_tips"} /\ roll.rnd = 0}

InitEvents ==
    /\ GS = InitialGameState
    /\ now = StartTime
    /\ idSeq = 0
    /\ ticks = 0
    /\ ops = 0
    /\ bathLog = << >>
    /\ arrivals = << >>
    /\ loop = LoopAtLoad

EventsSpecTick == Tick(MaxEventTicks, TipsRolls)

SpecEvents == InitEvents /\ [][EventsSpecTick]_vars

(***************************************************************************)
(* C24.  The revert of a timed event is the exact inverse of its effect on *)
(* modifiers.incomeBoostMultiplier: undoing the effect gives the value     *)
(* back, so in a run of ticks the multiplier is its starting value 1       *)
(* doubled once for every event that is still active, and an event that    *)
(* has started and expired has left nothing behind (with no event active   *)
(* the multiplier is 1 again; where another event started meanwhile, only  *)
(* that one's doubling is left).                                           *)
(***************************************************************************)
RECURSIVE Doubled(_, _)
Doubled(x, n) == IF n = 0 THEN x ELSE Doubled(2 * x, n - 1)

SystemNames ==
    {"HatchingSystem.tick", "CleaningSystem.tick", "DiseaseSystem.tick",
     "HabitatSystem.tick", "HappinessSystem.tick", "EventsSystem.tick",
     "EconomySystem.tick"}

\* A safeCall without the try/catch: the exception leaves gameTick (not the
\* source's)
safeCallUncaught(run, name, thrown, result) ==
    IF run.threw THEN run
    ELSE IF name \in thrown THEN [gs |-> run.gs, threw |-> TRUE]
    ELSE [gs |-> result, threw |-> FALSE]

\* safeCall(name, fn) at the point gameTick has reached in run: fn() gives
\* result, or throws on entry when name is in thrown.  run.threw says that
\* an exception is on its way out of gameTick, so that nothing more of
\* gameTick is executed
safeCall(run, name, thrown, result) ==
    IF run.threw THEN run
    ELSE IF name \in thrown THEN [gs |-> run.gs, threw |-> FALSE]
    ELSE [gs |-> result, threw |-> FALSE]

\* gameTick() when the system ticks named in thrown throw
gameTickThrowing(gs, t, pick, roll, thrown) ==
    LET start == [gs |-> gs, threw |-> FALSE]
        afterHatching == safeCall(start, "HatchingSystem.tick", thrown,
                                  HatchingTick(start.gs, t, pick))
        afterCleaning == safeCall(afterHatching, "CleaningSystem.tick", thrown,
                                  CleaningTick(afterHatching.gs, t))
        afterDisease == safeCall(afterCleaning, "DiseaseSystem.tick", thrown,
                                 DiseaseTick(afterCleaning.gs, t))
        afterHabitat == safeCall(afterDisease, "HabitatSystem.tick", thrown,
                                 HabitatTick(afterDisease.gs))
        afterHappiness == safeCall(afterHabitat, "HappinessSystem.tick", thrown,
                                   HappinessTick(afterHabitat.gs))
        afterEvents == safeCall(afterHappiness, "EventsSystem.tick", thrown,
                                EventsTick(afterHappiness.gs, t, roll))
    IN safeCall(afterEvents, "EconomySystem.tick", thrown, EconomyTick(afterEvents.gs))

\* The interval callback when at most one system tick throws.  An exception
\* that leaves the callback does not clear the interval timer.
ThrowingTick ==
    /\ loop.intervals # {}
    /\ ticks < MaxThrowingTicks
    /\ now' = now + TICK_MS
    /\ ticks' = ticks + 1
    /\ \E pick \in HatchPicks(GS, now'), roll \in RollsDrawn(GS, now', EventRolls),
          thrown \in {{}} \cup {{name} : name \in SystemNames} :
          /\ GS' = gameTickThrowing(GS, now', pick, roll, thrown).gs
          /\ bathLog' = IF "CleaningSystem.tick" \in thrown THEN bathLog
                        ELSE bathLog \o BathFinishing(
                                 safeCall([gs |-> GS, threw |-> FALSE],
                                          "HatchingSystem.tick", thrown,
                                          HatchingTick(GS, now', pick)).gs, now')
    /\ UNCHANGED <<idSeq, ops, arrivals, loop>>

SpecThrowing == Init /\ [][ThrowingTick]_vars

(***************************************************************************)
(* C25.  No exception leaves gameTick, and a system tick that throws       *)
(* stops neither the system ticks after it in the same game tick nor the   *)
(* game ticks after this one: whichever system tick throws, gameTick       *)
(* returns normally, every egg that is due has hatched unless it is the    *)
(* hatching tick that threw, the income is that of the animals the tick    *)
(* leaves unless it is the economy tick that threw, and the interval timer *)
(* stays set.                                                              *)
(***************************************************************************)
C25_ThrowingSystemIsContained ==
    [][ThrowingTick =>
        \A pick \in HatchPicks(GS, now'), roll \in RollsDrawn(GS, now', EventRolls),
           thrown \in {{}} \cup {{name} : name \in SystemNames} :
            LET run == gameTickThrowing(GS, now', pick, roll, thrown) IN
            /\ ~run.threw
            /\ GS' = run.gs =>
                  /\ "HatchingSystem.tick" \notin thrown =>
                        \A i \in 1..Len(GS'.eggs) : ~EggIsDue(GS'.eggs[i], now')
                  /\ "EconomySystem.tick" \notin thrown =>
                        GS'.incomePerSecond = SumIncome(GS'.animals, 1)
                  /\ loop'.intervals = loop.intervals /\ loop'.intervals # {}]_vars

\* An animal that has lost one tick's hunger two ticks after its egg was due,
\* and earns: a system tick threw and the ticks after it ran
C25_RanAfterThrow ==
    /\ ticks = 2
    /\ Len(GS.animals) = 1 /\ Len(GS.eggs) = 0
    /\ GS.animals[1].hunger = MAX_HUNGER * Pt - HUNGER_DECAY_PER_TICK
    /\ now = StartTime + EggData["common"].hatchTime + TICK_MS
    /\ GS.incomePerSecond = GS.animals[1].income


(***************************************************************************)
(* The bath house and the clinic with two sick animals, one of them        *)
(* already waiting for the clinic; game ticks go on for as long as an      *)
(* animal is waiting or being served                                       *)
(***************************************************************************)
\* Two common eggs bought at load time, hatched and neglected until both
\* animals are sick; the first is then sent to the clinic.  (The singleton
\* sets make TLC finish the run before it sends the animal.)
InitService ==
    /\ \E gs \in {sendToClinicById(sick, 1) : sick \in {TwoIncubating(170)}} : GS = gs
    /\ now = StartTime + 170 * TICK_MS
    /\ idSeq = 2
    /\ ticks = 0
    /\ ops = 0
    /\ bathLog = << >>
    /\ arrivals = << >>
    /\ loop = LoopAtLoad

\* The interval timer fires while an animal is waiting or being served, for
\* as many ticks as the services that can be ordered take one after the other
TimerFires ==
    /\ ticks < (MaxOps + 1) * (CLINIC_DURATION_MS \div TICK_MS + 1)
    /\ \/ GS.bathQueue # << >>
       \/ GS.currentBath # NoSlot
       \/ GS.clinicQueue # << >>
       \/ GS.currentPatient # NoSlot
    /\ loop.intervals # {}
    /\ now' = now + TICK_MS

ServiceTick == TimerFires /\ Tick(ticks + 1, {NoEvent})

NextService ==
    \/ Clean
    \/ SendToClinic
    \/ Sell
    \/ ServiceTick

\* The interval timer keeps firing for as long as it is set.  (Only
\* ServiceTick moves the clock, so the steps of TimerFires are those of
\* ServiceTick, and the one is enabled when the other is.)
SpecService == InitService /\ [][NextService]_vars /\ WF_now(TimerFires)

OnePromotionLater(slot, queue, slotAfter, queueAfter, t, durationMs) ==
    /\ slot # NoSlot /\ t - slot.start >= slot.durationMs =>
          slotAfter = NoSlot /\ queueAfter = queue
    /\ slot # NoSlot /\ t - slot.start < slot.durationMs =>
          slotAfter = slot /\ queueAfter = queue
    /\ slot = NoSlot /\ queue # << >> =>
          /\ slotAfter = [id |-> Head(queue), start |-> t, durationMs |-> durationMs]
          /\ queueAfter = Tail(queue)
    /\ Len(queueAfter) >= Len(queue) - 1

C27_PromotionOnLaterStep ==
    [][ServiceTick =>
          /\ OnePromotionLater(GS.currentBath, GS.bathQueue,
                               GS'.currentBath, GS'.bathQueue, now', BATH_DURATION_MS)
          /\ OnePromotionLater(GS.currentPatient, GS.clinicQueue,
                               GS'.currentPatient, GS'.clinicQueue, now',
                               CLINIC_DURATION_MS)]_vars

\* The tick that has just completed a bath has left the bath empty and the
\* other animal waiting
C27_ClearedWithOneWaiting ==
    /\ bathLog # << >>
    /\ bathLog[Len(bathLog)].at = now
    /\ GS.currentBath = NoSlot
    /\ GS.bathQueue # << >>


(***************************************************************************)
(* C28.  An egg, a bath, a clinic treatment and a timed event complete in  *)
(* a tick exactly when the time since their start has reached their        *)
(* duration: a tick one tick or one millisecond before that leaves them    *)
(* as they are, and a tick at that time, one millisecond later or          *)
(* MaxLateTicks ticks later completes them.  The completed egg is replaced *)
(* by its animal, the completed bath leaves its animal with cleanliness    *)
(* 100 and the bath empty, the completed treatment leaves the clinic       *)
(* empty, and the completed event is no longer active.                     *)
(***************************************************************************)
\* The times after now around the end of an operation at which a tick is tried
TickTimes(start, durationMs) ==
    {t \in {start + durationMs + d : d \in {0 - TICK_MS, 0 - 1, 0, 1, MaxLateTicks * TICK_MS}} :
        t > now}

C28_CompleteWhenDurationElapsed ==
    /\ \A i \in 1..Len(GS.eggs) :
          \A t \in TickTimes(GS.eggs[i].start, GS.eggs[i].hatchTime) :
              LET after == HatchingTick(GS, t, [j \in 1..Len(GS.eggs) |-> 1]) IN
              IF t - GS.eggs[i].start >= GS.eggs[i].hatchTime
              THEN /\ \A j \in 1..Len(after.eggs) : after.eggs[j].id # GS.eggs[i].id
                   /\ AnimalIndex(after, GS.eggs[i].id) # 0
              ELSE /\ \E j \in 1..Len(after.eggs) : after.eggs[j] = GS.eggs[i]
                   /\ AnimalIndex(after, GS.eggs[i].id) = 0
    /\ GS.currentBath # NoSlot =>
          \A t \in TickTimes(GS.currentBath.start, GS.currentBath.durationMs) :
              LET after == CleaningTick(GS, t)
                  i == AnimalIndex(GS, GS.currentBath.id)
              IN IF t - GS.currentBath.start >= GS.currentBath.durationMs
                 THEN /\ after.currentBath = NoSlot
                      /\ i # 0 => after.animals[i].cleanliness = MAX_CLEANLINESS * Pt
                 ELSE /\ after.currentBath = GS.currentBath
                      /\ after.animals = GS.animals
    /\ GS.currentPatient # NoSlot =>
          \A t \in TickTimes(GS.currentPatient.start, GS.currentPatient.durationMs) :
              LET after == processClinic(GS, t) IN
              IF t - GS.currentPatient.start >= GS.currentPatient.durationMs
              THEN after.currentPatient = NoSlot
              ELSE after.currentPatient = GS.currentPatient /\ after.animals = GS.animals
    /\ \A n \in 1..Len(GS.events.activeEvents) :
          LET ev == GS.events.activeEvents[n] IN
          \A t \in TickTimes(ev.startedAt, ev.durationMs) :
              (ev \in SeqToSet(processActiveEvents(GS, t).events.activeEvents))
                 <=> (t - ev.startedAt < ev.durationMs)

\* The first tick at which the egg is 7000 ms old has hatched it, and the
\* animal is being bathed
C28_HatchedOnTimeAndBathing ==
    /\ GS.eggs = << >>
    /\ AnimalIndex(GS, 1) # 0
    /\ now >= StartTime + EggData["common"].hatchTime + TICK_MS
    /\ idSeq = 1
    /\ GS.currentBath # NoSlot /\ GS.currentBath.id = 1
    /\ ticks >= 2
    /\ now - ticks * TICK_MS = StartTime + EggData["common"].hatchTime - TICK_MS


(***************************************************************************)
(* A prestige around the start of a random event: three housed animals     *)
(* and the coins for a prestige, one tick before the event cooldown ends   *)
(***************************************************************************)
InitPrestige ==
    /\ \E gs \in {ThreeHoused(45)} : GS = gs
    /\ now = StartTime + 45 * TICK_MS
    /\ idSeq = 3
    /\ ticks = 0
    /\ ops = 0
    /\ bathLog = << >>
    /\ arrivals = << >>
    /\ loop = LoopAtLoad

SpecPrestige == InitPrestige /\ [][GameTick \/ Prestige \/ Sell]_vars

(***************************************************************************)
(* C29.  A successful prestige leaves the transient state as a restart     *)
(* does: isGameOver is false and gameOverReason is null, no event is       *)
(* active, and modifiers.incomeBoostMultiplier is 1.  resetZooForNewRun    *)
(* does not write incomeBoostMultiplier, so this fails: TLC finds a        *)
(* prestige during a Double Tips Hour that leaves the multiplier at 2.     *)
(***************************************************************************)
C29_PrestigeResetsTransientState ==
    [][Prestige /\ GS' # GS =>
          /\ ~GS'.isGameOver
          /\ GS'.gameOverReason = "none"
          /\ GS'.events.activeEvents = << >>
          /\ GS'.modifiers.incomeBoostMultiplier
                = restartGame(GS).modifiers.incomeBoostMultiplier
          /\ GS'.modifiers.incomeBoostMultiplier = 1]_vars


(***************************************************************************)
(* C30.  In every tick every animal that is not in the bath's active slot  *)
(* loses the per-tick amount of hunger and a fixed positive amount of      *)
(* cleanliness, neither going below 0, and the animal in the bath's active *)
(* slot keeps both.  (Ticks that start a random event and the animal       *)
(* whose bath the tick completes are left out: the event and the bath      *)
(* write cleanliness too.)  No system tick lowers cleanliness, and the     *)
(* happiness tick lowers the hunger of every animal, so this fails: TLC    *)
(* finds a tick after which an animal outside the bath is as clean as      *)
(* before.                                                                 *)
(***************************************************************************)
\* Animal a of the state before a tick is animal b of the state after it
Decayed(a, b) ==
    /\ b.hunger = Max(0, a.hunger - HUNGER_DECAY_PER_TICK)
    /\ \/ b.cleanliness < a.cleanliness
       \/ b.cleanliness = 0 /\ a.cleanliness = 0

C30_DecayOutsideTheBath ==
    [][GameTick /\ GS'.events.history = GS.events.history =>
          \A i \in 1..Len(GS.animals) :
              LET a == GS.animals[i]
                  j == AnimalIndex(GS', a.id)
              IN (j # 0 /\ ~(GS.currentBath # NoSlot /\ GS.currentBath.id = a.id
                              /\ GS'.currentBath = NoSlot)) =>
                    IF GS'.currentBath # NoSlot /\ GS'.currentBath.id = a.id
                    THEN /\ GS'.animals[j].hunger = a.hunger
                         /\ GS'.animals[j].cleanliness = a.cleanliness
                    ELSE Decayed(a, GS'.animals[j])]_vars


(***************************************************************************)
(* C31.  No two events are triggered within the cooldown of one another:   *)
(* a new event is triggered only if the time since the last trigger is at  *)
(* least MIN_TIME_BETWEEN_EVENTS_MS, and every trigger, instant or timed,  *)
(* updates the last-trigger time.                                          *)
(***************************************************************************)
\* The time of the latest trigger the history of gs records, 0 without one
LatestTrigger(gs) ==
    IF gs.events.history = << >> THEN 0
    ELSE gs.events.history[Len(gs.events.history)].startedAt

\* The claim as stated, for every step of the game: while the latest trigger
\* is less than the cooldown before the tick that follows the step, that
\* tick triggers no event, whatever it rolls
C31_NoTriggerWithinCooldown ==
    [][(/\ GS.events.history # << >>
        /\ now' + TICK_MS - LatestTrigger(GS) < MIN_TIME_BETWEEN_EVENTS_MS)
       => \A roll \in EventRolls :
             EventsTick(GS', now' + TICK_MS, roll).events.history
                 = GS'.events.history]_vars

\* Within one run, that is between two resets of the event state by a
\* restart or a prestige: a tick triggers at most one event, and only when
\* the last-trigger time and the latest recorded trigger are at least the
\* cooldown ago; the trigger is recorded at the time of the tick and
\* becomes the last-trigger time; a tick that triggers nothing leaves the
\* last-trigger time alone
C31_TriggersRespectCooldown ==
    [][now' # now =>
        LET before == GS.events.history
            after == GS'.events.history
        IN IF after = before
           THEN GS'.events.lastEventTime = GS.events.lastEventTime
           ELSE /\ Len(after) = Len(before) + 1
                /\ SubSeq(after, 1, Len(before)) = before
                /\ now' - GS.events.lastEventTime >= MIN_TIME_BETWEEN_EVENTS_MS
                /\ now' - LatestTrigger(GS) >= MIN_TIME_BETWEEN_EVENTS_MS
                /\ LatestTrigger(GS') = now'
                /\ GS'.events.lastEventTime = now']_vars

\* An instant event was triggered on top of the earlier ones of the run,
\* the cooldown after the latest of them
C31_InstantAfterCooldown ==
    /\ Len(GS.events.history) >= 2
    /\ LatestTrigger(GS) = now
    /\ GS.events.history[Len(GS.events.history)].durationMs = 0
    /\ GS.events.history[Len(GS.events.history) - 1].startedAt
           = now - MIN_TIME_BETWEEN_EVENTS_MS

(***************************************************************************)
(* Specification SpecHatch: the game ticks over an incubator that holds    *)
(* up to MaxIncubating eggs, some of a type window.AnimalPools has no      *)
(* array for.  The shop never sells such an egg with a positive hatchTime: *)
(* the incubators are inputs to HatchingSystem.tick, which reads           *)
(* GameState.eggs and window.AnimalPools as it finds them.                 *)
(***************************************************************************)
MaxIncubating == 3

\* Eggs numbered from 1 in incubator order, of a pooled or an unpooled type,
\* due at the first tick or at the third
HatchInputs ==
    UNION {[1..n -> [type : {"common", "unknown"},
                     start : {StartTime + TICK_MS - EggData["common"].hatchTime,
                              StartTime + 3 * TICK_MS - EggData["common"].hatchTime}]]
           : n \in 1..MaxIncubating}

InitHatch ==
    /\ \E in \in HatchInputs :
          /\ GS = [InitialGameState EXCEPT !.eggs =
                      [i \in DOMAIN in |->
                          [id |-> i, type |-> in[i].type, start |-> in[i].start,
                           hatchTime |-> EggData["common"].hatchTime]]]
          /\ idSeq = Len(in)
    /\ now = StartTime
    /\ ticks = 0
    /\ ops = 0
    /\ bathLog = << >>
    /\ arrivals = << >>
    /\ loop = LoopAtLoad

SpecHatch == InitHatch /\ [][GameTick]_vars

(***************************************************************************)
(* C32.  An egg whose type has an empty or missing creature pool is still  *)
(* removed from the incubating collection when due but produces no animal, *)
(* and the step continues with the remaining eggs: every other due egg     *)
(* hatches, every egg not due stays.                                       *)
(***************************************************************************)
C32_UnpooledEggIsConsumed ==
    [][\A i \in 1..Len(GS.eggs) :
         LET egg == GS.eggs[i]
             due == EggIsDue(egg, now')
             pooled == Len(getAnimalPoolForEggType(egg.type)) > 0
             kept == \E j \in 1..Len(GS'.eggs) : GS'.eggs[j] = egg
             born == \E j \in 1..Len(GS'.animals) : GS'.animals[j].id = egg.id
         IN /\ (due /\ ~pooled) => (~kept /\ ~born)
            /\ (due /\ pooled) => (~kept /\ born)
            /\ ~due => (kept /\ ~born)]_vars

\* Of two eggs due together the first had no pool and is gone without an
\* animal, the second hatched
C32_SecondEggHatched ==
    /\ idSeq = 2
    /\ ticks = 1
    /\ GS.eggs = << >>
    /\ Len(GS.animals) = 1
    /\ GS.animals[1].id = 2

(***************************************************************************)
(* C33.  The hatching step removes only eggs that are due: the eggs not    *)
(* yet due remain in the incubating collection, untouched and in their     *)
(* original relative order, and an egg is never removed without being due. *)
(***************************************************************************)
C33_OnlyDueEggsLeave ==
    [][now' # now =>
        LET waiting == {i \in 1..Len(GS.eggs) : ~EggIsDue(GS.eggs[i], now')}
            place(i) == Cardinality({k \in waiting : k <= i})
        IN /\ Len(GS'.eggs) = Cardinality(waiting)
           /\ \A i \in waiting : GS'.eggs[place(i)] = GS.eggs[i]]_vars

\* The second of three eggs hatched; the first and the third wait on
C33_MiddleEggLeft ==
    /\ idSeq = 3
    /\ ticks = 1
    /\ Len(GS.eggs) = 2
    /\ GS.eggs[1].id = 1
    /\ GS.eggs[2].id = 3

(***************************************************************************)
(* Specification SpecPoor: the neglected animal, sick, fed until the coins *)
(* just cover its treatment, at the end of an event cooldown; then the     *)
(* shop, the care buttons and the ticks                                    *)
(***************************************************************************)
InitPoor ==
    /\ \E gs \in {FeedTimes(sick, 1, 30) : sick \in {OneNeglected(180)}} : GS = gs
    /\ now = StartTime + 180 * TICK_MS
    /\ idSeq = 1
    /\ ticks = 0
    /\ ops = 0
    /\ bathLog = << >>
    /\ arrivals = << >>
    /\ loop = LoopAtLoad

SpecPoor == InitPoor /\ [][GameTick \/ BuyEgg \/ Feed \/ Clean \/ SendToClinic]_vars

(***************************************************************************)
(* C34.  The coin balance is never negative in a reachable state: every    *)
(* purchase (egg, feed, bath, clinic) is refused when the balance is below *)
(* its cost, and the coin-loss event takes at most the balance; so the     *)
(* 'bankrupt' condition of the lose evaluator is never met.                *)
(***************************************************************************)
\* gs after a purchase that costs cost: refused below the cost, and never
\* left in debt
PaidFor(gs, after, cost) ==
    /\ after.coins >= 0
    /\ after.coins >= gs.coins - cost
    /\ gs.coins < cost => after = gs

C34_CoinsNeverNegative ==
    /\ GS.coins >= 0
    /\ ~checkBankrupt(GS)
    /\ \A typeKey \in ShopInputs :
          PaidFor(GS, buyEgg(GS, typeKey, idSeq + 1, now), EggDef(typeKey).price)
    /\ \A i \in 1..Len(GS.animals) :
          LET animal == GS.animals[i] IN
          /\ PaidFor(GS, feedAnimalById(GS, animal.id), animal.income * FEED_COST_MULTIPLIER)
          /\ PaidFor(GS, sendToBathById(GS, animal.id), animal.income * CLEAN_COST_MULTIPLIER)
          /\ PaidFor(GS, sendToClinicById(GS, animal.id),
                     animal.income * CLINIC_COST_MULTIPLIER)
    /\ \A rnd \in EventRnd("lost_tickets") :
          LET after == EventEffect(GS, "lost_tickets", rnd).coins IN
          after >= 0 /\ after <= GS.coins

\* The coin-loss event has just taken all there was, less than its amount,
\* from a player who can afford neither food nor bath nor clinic for the
\* sick animal
C34_LostAllCoins ==
    /\ GS.coins = 0
    /\ ops = MaxOps
    /\ GS.events.history # << >>
    /\ LatestTrigger(GS) = now
    /\ GS.events.history[Len(GS.events.history)].id = "lost_tickets"
    /\ Len(GS.animals) = 1
    /\ GS.animals[1].healthStatus = "sick"
    /\ GS.clinicQueue = << >>
    /\ GS.currentPatient = NoSlot

(***************************************************************************)
(* C35.  Whenever the active-event set is empty,                           *)
(* modifiers.incomeBoostMultiplier is 1; more generally it always equals 2 *)
(* to the power of the number of active double-tips events, across ticks,  *)
(* restart and prestige.                                                   *)
(***************************************************************************)
ActiveDoubleTips(gs) ==
    Len(SelectSeq(gs.events.activeEvents, LAMBDA ev : ev.id = "double_tips"))

C35_BoostMatchesActiveEvents ==
    GS.modifiers.incomeBoostMultiplier = 2 ^ ActiveDoubleTips(GS)

C37_ClinicHoldsOnlySick ==
    \A id \in InClinic(GS) :
        \/ AnimalIndex(GS, id) = 0
        \/ GS.animals[AnimalIndex(GS, id)].healthStatus = "sick"

\* The first patient has been cured and has left, the second is under
\* treatment
C37_SecondPatientTreated ==
    /\ Len(GS.animals) = 2
    /\ GS.animals[1].healthStatus = "healthy"
    /\ GS.currentPatient # NoSlot
    /\ GS.currentPatient.id = GS.animals[2].id

(***************************************************************************)
(* C38.  An animal's neglect counter always satisfies                      *)
(* 0 <= neglectTicks <= NEGLECT_TICKS_BEFORE_SICK (20): it stops changing  *)
(* once the animal is sick and is reset to 0 by a completed treatment, so  *)
(* the ceiling of twice the threshold is never reached.                    *)
(***************************************************************************)
CounterInRange(a) ==
    /\ a.neglectTicks >= 0
    /\ a.neglectTicks <= NEGLECT_TICKS_BEFORE_SICK
    /\ a.neglectTicks < NEGLECT_TICKS_BEFORE_SICK * 2
    /\ a.healthStatus = "sick" <=> a.neglectTicks = NEGLECT_TICKS_BEFORE_SICK

Housed(gs) ==
    /\ \A i \in 1..Len(gs.animals), k \in HabitatKeys :
          gs.animals[i].habitat = k <=>
              gs.animals[i].id \in SeqToSet(gs.habitats[k].animalIds)
    /\ \A k \in HabitatKeys :
          Cardinality(SeqToSet(gs.habitats[k].animalIds)) = Len(gs.habitats[k].animalIds)

C39_HabitatBookkeeping ==
    [][/\ Housed(GS)
       /\ Housed(GS')
       /\ now' # now =>
             \A k \in HabitatKeys :
                 SeqToSet(GS'.habitats[k].animalIds) \subseteq AnimalIds(GS')]_vars

\* An animal was sold out of its habitat: its id is in the list until the
\* tick to come
C39_SoldOutOfHabitat ==
    /\ ticks = 0
    /\ Len(GS.animals) = 3
    /\ \E k \in HabitatKeys :
          ~(SeqToSet(GS.habitats[k].animalIds) \subseteq AnimalIds(GS))

(***************************************************************************)
(* C40.  isGameOver is true iff gameOverReason is one of 'bankrupt',       *)
(* 'no_animals', 'all_unhappy' (and null otherwise); the pair is only ever *)
(* set together, by the lose evaluator, and cleared together, by restart.  *)
(***************************************************************************)
GameOverReasons == {"bankrupt", "no_animals", "all_unhappy"}

Paired(gs) ==
    IF gs.isGameOver THEN gs.gameOverReason \in GameOverReasons
    ELSE gs.gameOverReason = "none"

C40_FlagAndReasonPaired ==
    [][/\ Paired(GS)
       /\ Paired(GS')
       /\ <<GS'.isGameOver, GS'.gameOverReason>> # <<GS.isGameOver, GS.gameOverReason>> =>
             IF GS'.isGameOver
             THEN ~GS.isGameOver /\ GS' = LoseTick(GS)
             ELSE GS.isGameOver /\ GS' = restartGame(GS)]_vars

\* The lose evaluator has ended a run in which the player had clicked, all
\* animals unhappy
C40_EndedAllUnhappy ==
    /\ GS.isGameOver
    /\ GS.gameOverReason = "all_unhappy"
    /\ ops > 0


=========================================================================
